---- MODULE Spec2Model ----
(***************************************************************************)
(* A model of the pieces BitTorrent client (eliasson/pieces).              *)
(*                                                                         *)
(*   - the piece manager (client.py: Block, Piece, PieceManager)           *)
(*   - the peer workers (protocol.py: PeerConnection, PeerStreamIterator)  *)
(*     with the asyncio tasks that run them and the remote peers           *)
(*   - the client (client.py: TorrentClient) and the SIGINT handler of     *)
(*     cli.py                                                              *)
(*                                                                         *)
(* The code is written for Python 3.5 (__aiter__ is a coroutine), and the  *)
(* model follows the asyncio of that version: CancelledError is the one    *)
(* exception class of concurrent.futures and asyncio and derives from      *)
(* Exception; a cancel of a running task is delivered at the next await    *)
(* that suspends it; Queue.get does not suspend when the queue holds an    *)
(* item.                                                                   *)
(*                                                                         *)
(* Byte strings that are block payloads are abstracted to a pair           *)
(* <<content, length>>: the content is a small tag, the length is the      *)
(* number of bytes.  SHA-1 is taken to be collision free on the data of    *)
(* the model.                                                              *)
(***************************************************************************)
EXTENDS Integers, Sequences, FiniteSets, TLC

(***************************************************************************)
(* Bounds of the model.                                                    *)
(***************************************************************************)
\* Number of remote peer ids.
MaxPeerIds == 2
\* The clock advances TickMs milliseconds at a time, at most MaxTicks times.
TickMs == 300001
MaxTicks == 1
\* Number of peer workers of a pool, of addresses of a tracker response, of
\* frames an arbitrary peer sends on one connection, and of frames sent that
\* the worker has not read yet.
NWorkers == 1
MaxPuts == 2
MaxFrames == 3
MaxInFlight == 2

(***************************************************************************)
(* Program constants.                                                      *)
(***************************************************************************)
REQUEST_SIZE == 16384
max_pending_time == 300000
Missing == 0
Pending == 1
Retrieved == 2
\* bits of one byte of a bitstring.BitArray built from bytes
ByteBits == 8

\* Python's None, for values that are otherwise tuples.
None == <<>>

PeerIds == 1..MaxPeerIds

VARIABLES
    torrent,          \* the Torrent the PieceManager was built for
    peers,            \* PieceManager.peers: peer id -> bitfield
    pending_blocks,   \* PieceManager.pending_blocks: list of PendingRequest
    missing_pieces,   \* PieceManager.missing_pieces: list of pieces (by index)
    ongoing_pieces,   \* PieceManager.ongoing_pieces
    have_pieces,      \* PieceManager.have_pieces
    blocks,           \* Piece.blocks of every piece: index -> list of Block
    fd,               \* PieceManager.fd: "open" or "closed"
    written,          \* the os.write calls made on fd: list of [pos, data]
    now,              \* time.time() in milliseconds
    last,             \* the last piece manager call and how it ended
    queue,            \* TorrentClient.available_peers
    puts,             \* number of addresses put on the queue so far
    pc,               \* per worker: the await its task is suspended at
    my_state,         \* PeerConnection.my_state (a list)
    peer_state,       \* PeerConnection.peer_state (a list)
    remote_id,        \* PeerConnection.remote_id (0 for None)
    writer,           \* PeerConnection.writer: "none", "open", "closed"
    must_cancel,      \* a cancel() of the worker's task is pending
    exit,             \* how the worker's task ended
    buffer,           \* PeerStreamIterator.buffer, as a list of frames
    inbox,            \* frames the remote peer has sent, not yet read
    eof,              \* the remote peer has closed the connection
    budget,           \* frames the remote peer may still send
    outstanding,      \* Requests written that the peer has not answered
    sent,             \* messages written on the current connection
    npiece,           \* Piece messages received on the current connection
    nconn,            \* connections the worker has opened
    failed,           \* the listed failure that ended the last connection
    choking,          \* the last of Choke / Unchoke the worker received
    handled,          \* the message the loop body ran for last, and a turn bit
    cpc,              \* TorrentClient.start: where its task is
    abort,            \* TorrentClient.abort
    previous,         \* start: previous, the time of the last announce (0: None)
    current,          \* start: current
    interval,         \* start: interval, in milliseconds
    tracker,          \* Tracker.http_client: "open" or "closed"
    start_cancel,     \* a cancel() of the task of start is pending
    signals,          \* the SIGINT signals delivered
    announces,        \* the announce calls made: their event and reply
    stream,           \* the bytes a peer has sent that are not read yet
    bytes_buffer,     \* PeerStreamIterator.buffer, as bytes
    parsed,           \* the last call of parse: buffer before, message, error
    bpc,              \* where the reader of the stream is
    hbuf,             \* _handshake: buf, the bytes of the last read
    tries,            \* _handshake: the tries counter
    received,         \* all bytes the reads have returned so far
    response,         \* _handshake: the decoded Handshake of the peer
    source,           \* what is converted: an object, bytes, a message, a file
    encoded,          \* what encode() returned or raised
    decoded,          \* what decode() returned or raised
    loaded,           \* what Torrent(filename) returned or raised
    called            \* the method called on a Piece, what it returned and left

pmvars == <<torrent, peers, pending_blocks, missing_pieces, ongoing_pieces,
            have_pieces, blocks, fd, written, now, last>>

wvars == <<queue, puts, pc, my_state, peer_state, remote_id, writer,
           must_cancel, exit, buffer, inbox, eof, budget, outstanding, sent,
           npiece, nconn, failed, choking, handled>>

cvars == <<cpc, abort, previous, current, interval, tracker, start_cancel,
           signals, announces>>

evars == <<source, encoded, decoded, loaded, called>>

bvars == <<stream, bytes_buffer, parsed, bpc, hbuf, tries, received,
           response, evars>>
vars == <<pmvars, wvars, cvars, bvars>>

Workers == DOMAIN pc

(***************************************************************************)
(* Helpers on sequences.                                                   *)
(***************************************************************************)
Ceil(a, b) == (a + b - 1) \div b

Range(s) == {s[k] : k \in DOMAIN s}

\* list.remove(x) / del list[k]: the list without its k-th element
RemoveAt(s, k) == [j \in 1..(Len(s) - 1) |-> IF j < k THEN s[j] ELSE s[j + 1]]

\* position of the first TRUE of a list of booleans, 0 when there is none
FirstIndex(flags) ==
    IF \E k \in DOMAIN flags : flags[k]
    THEN CHOOSE k \in DOMAIN flags : flags[k] /\ \A j \in 1..(k - 1) : ~flags[j]
    ELSE 0

\* list.remove(x): removes the first occurrence
Remove(s, x) == RemoveAt(s, FirstIndex([k \in DOMAIN s |-> s[k] = x]))

(***************************************************************************)
(* The content of the torrent and its digests.                             *)
(***************************************************************************)
\* hashlib.sha1(data).digest() of a list of payloads <<content, length>>:
\* the total length and the contents read as a number in base 3.
RECURSIVE Sha1Code(_)
Sha1Code(data) ==
    IF data = <<>> THEN 0 ELSE (1 + Head(data)[1]) + 3 * Sha1Code(Tail(data))

RECURSIVE DataLen(_)
DataLen(data) ==
    IF data = <<>> THEN 0 ELSE Head(data)[2] + DataLen(Tail(data))

Sha1(data) == <<DataLen(data), Sha1Code(data)>>

\* The length in bytes of piece i of a file of total_size bytes.
TruePieceLen(piece_length, total_size, i) ==
    IF (i + 1) * piece_length <= total_size
    THEN piece_length
    ELSE total_size - i * piece_length

\* The bytes of the file that lie in piece i at [offset, offset + REQUEST_SIZE)
TruePayload(piece_length, total_size, i, offset) ==
    LET plen == TruePieceLen(piece_length, total_size, i)
        n    == IF offset + REQUEST_SIZE <= plen THEN REQUEST_SIZE
                ELSE plen - offset
    IN  <<(i + (offset \div REQUEST_SIZE)) % 2, n>>

\* The bytes of piece i, as the payloads of its REQUEST_SIZE slices.
TrueData(piece_length, total_size, i) ==
    LET plen == TruePieceLen(piece_length, total_size, i)
    IN  [k \in 1..Ceil(plen, REQUEST_SIZE) |->
            TruePayload(piece_length, total_size, i, (k - 1) * REQUEST_SIZE)]

\* A payload of the right length whose bytes differ from the file's.
Corrupt(payload) == <<1 - payload[1], payload[2]>>

\* Torrent: the meta-info of a single file torrent (torrent.py).  pieces is
\* the list of the SHA-1 digests of the pieces of the file.
MakeTorrent(piece_length, total_size) ==
    [piece_length |-> piece_length,
     total_size   |-> total_size,
     pieces       |-> [k \in 1..Ceil(total_size, piece_length) |->
                          Sha1(TrueData(piece_length, total_size, k - 1))]]

\* The torrents of the model: two pieces of one block, the last one short;
\* two pieces of one block, the last one a whole piece; and one piece of two
\* blocks, the last one short.
Torrents ==
    { MakeTorrent(REQUEST_SIZE, REQUEST_SIZE + 100),
      MakeTorrent(REQUEST_SIZE, 2 * REQUEST_SIZE),
      MakeTorrent(2 * REQUEST_SIZE, REQUEST_SIZE + 100) }

total_pieces == Len(torrent.pieces)

PieceIndexes == 0..(total_pieces - 1)

(***************************************************************************)
(* Block and Piece (client.py).                                            *)
(***************************************************************************)
\* Block.__init__
Block(piece, offset, length) ==
    [piece |-> piece, offset |-> offset, length |-> length,
     status |-> Missing, data |-> None]

\* Piece.reset
reset(bs) == [k \in DOMAIN bs |-> [bs[k] EXCEPT !.status = Missing]]

\* variants: a next_request that takes the last Missing block, and a
\* block_received that keeps the data of the block
next_request_last(bs) ==
    LET missing == { j \in DOMAIN bs : bs[j].status = Missing }
        k == CHOOSE j \in missing : \A i \in missing : i <= j
    IN  IF missing # {}
        THEN [k |-> k, blocks |-> [bs EXCEPT ![k].status = Pending]]
        ELSE [k |-> 0, blocks |-> bs]

block_received_no_data(bs, offset, data) ==
    [j \in DOMAIN bs |->
        IF bs[j].offset = offset THEN [bs[j] EXCEPT !.status = Retrieved]
        ELSE bs[j]]

\* a variant of Piece.next_request that takes the first block not Retrieved
next_request_pending(bs) ==
    LET k == FirstIndex([j \in DOMAIN bs |-> bs[j].status # Retrieved])
    IN  IF k # 0
        THEN [k |-> k, blocks |-> [bs EXCEPT ![k].status = Pending]]
        ELSE [k |-> 0, blocks |-> bs]

\* Piece.next_request: k is the position of the block returned, 0 for None
Piece_next_request(bs) ==
    LET k == FirstIndex([j \in DOMAIN bs |-> bs[j].status = Missing])
    IN  IF k # 0
        THEN [k |-> k, blocks |-> [bs EXCEPT ![k].status = Pending]]
        ELSE [k |-> 0, blocks |-> bs]

\* Piece.block_received
Piece_block_received(bs, offset, data) ==
    LET k == FirstIndex([j \in DOMAIN bs |-> bs[j].offset = offset])
    IN  IF k # 0
        THEN [bs EXCEPT ![k].status = Retrieved, ![k].data = data]
        ELSE bs

\* Piece.is_complete
is_complete(bs) == Cardinality({k \in DOMAIN bs : bs[k].status # Retrieved}) = 0

\* sorted(self.blocks, key=lambda b: b.offset)
SortedByOffset(bs) ==
    [k \in DOMAIN bs |->
        bs[CHOOSE j \in DOMAIN bs :
              Cardinality({i \in DOMAIN bs :
                  \/ bs[i].offset < bs[j].offset
                  \/ (bs[i].offset = bs[j].offset /\ i < j)}) = k - 1]]

\* Piece.data: the payloads of the blocks joined in offset order
Piece_data(bs) == LET retrieved == SortedByOffset(bs)
                  IN  [k \in DOMAIN retrieved |-> retrieved[k].data]

is_hash_matching_unchecked(bs, hash) == TRUE

\* Piece.is_hash_matching
is_hash_matching(bs, hash) == hash = Sha1(Piece_data(bs))

(***************************************************************************)
(* PieceManager (client.py).  The operations are functions of the manager's*)
(* fields m (peers, pending_blocks, missing_pieces, ongoing_pieces,        *)
(* have_pieces, blocks, written): a handler of a peer connection makes     *)
(* several calls in one step.                                              *)
(***************************************************************************)
\* a variant of _initiate_pieces that leaves the last block at REQUEST_SIZE
initiate_pieces_full(t) ==
    LET n                == Len(t.pieces)
        std_piece_blocks == Ceil(t.piece_length, REQUEST_SIZE)
        last_length      == t.total_size % t.piece_length
        num_blocks       == Ceil(last_length, REQUEST_SIZE)
    IN  [index \in 0..(n - 1) |->
            [k \in 1..(IF index < n - 1 THEN std_piece_blocks
                                         ELSE num_blocks) |->
                Block(index, (k - 1) * REQUEST_SIZE, REQUEST_SIZE)]]

\* PieceManager._initiate_pieces: the blocks of every piece
initiate_pieces(t) ==
    LET n                == Len(t.pieces)
        std_piece_blocks == Ceil(t.piece_length, REQUEST_SIZE)
        last_length      == t.total_size % t.piece_length
        num_blocks       == Ceil(last_length, REQUEST_SIZE)
    IN  [index \in 0..(n - 1) |->
            IF index < n - 1
            THEN [k \in 1..std_piece_blocks |->
                     Block(index, (k - 1) * REQUEST_SIZE, REQUEST_SIZE)]
            ELSE [k \in 1..num_blocks |->
                     IF k = num_blocks /\ last_length % REQUEST_SIZE > 0
                     THEN Block(index, (k - 1) * REQUEST_SIZE,
                                last_length % REQUEST_SIZE)
                     ELSE Block(index, (k - 1) * REQUEST_SIZE, REQUEST_SIZE)]]

\* the fields of the piece manager in the current state
PM == [peers          |-> peers,
       pending_blocks |-> pending_blocks,
       missing_pieces |-> missing_pieces,
       ongoing_pieces |-> ongoing_pieces,
       have_pieces    |-> have_pieces,
       blocks         |-> blocks,
       written        |-> written]

\* PieceManager.complete
complete == Len(have_pieces) = total_pieces

\* PieceManager.bytes_downloaded
bytes_downloaded == Len(have_pieces) * torrent.piece_length

\* PieceManager.add_peer
add_peer(m, peer_id, bitfield) ==
    [m EXCEPT !.peers = [p \in DOMAIN m.peers \cup {peer_id} |->
                            IF p = peer_id THEN bitfield ELSE m.peers[p]]]

\* bitfield[index] of a bitstring.BitArray raises IndexError past its end
InBitfield(bf, index) == index < Len(bf)

update_peer_registers(m, peer_id, index) ==
    IF peer_id \notin DOMAIN m.peers
    THEN [exc |-> "",
          m |-> add_peer(m, peer_id,
                         [k \in 1..ByteBits |-> IF k = index + 1 THEN 1 ELSE 0])]
    ELSE IF ~InBitfield(m.peers[peer_id], index)
         THEN [exc |-> "IndexError", m |-> m]
         ELSE [exc |-> "",
               m |-> [m EXCEPT !.peers[peer_id][index + 1] = 1]]

\* PieceManager.update_peer
update_peer(m, peer_id, index) ==
    IF peer_id \notin DOMAIN m.peers THEN [exc |-> "", m |-> m]
    ELSE IF ~InBitfield(m.peers[peer_id], index)
         THEN [exc |-> "IndexError", m |-> m]
         ELSE [exc |-> "",
               m |-> [m EXCEPT !.peers[peer_id][index + 1] = 1]]

\* PieceManager.remove_peer
remove_peer(m, peer_id) ==
    [m EXCEPT !.peers = [p \in DOMAIN m.peers \ {peer_id} |-> m.peers[p]]]

\* PieceManager._expired_requests.  PendingRequest is a namedtuple, so the
\* assignment request.added = current raises AttributeError.
RECURSIVE expired_scan(_, _)
expired_scan(bf, requests) ==
    IF requests = <<>> THEN ""
    ELSE LET request == Head(requests)
         IN  IF ~InBitfield(bf, request.piece) THEN "IndexError"
             ELSE IF bf[request.piece + 1] = 1
                     /\ request.added + max_pending_time < now
                  THEN "AttributeError"
                  ELSE expired_scan(bf, Tail(requests))

expired_requests(m, peer_id) == expired_scan(m.peers[peer_id], m.pending_blocks)

\* PieceManager._next_ongoing: the position in ongoing_pieces of the first
\* piece the peer has that still has a Missing block (0 when there is none)
RECURSIVE ongoing_scan(_, _, _)
ongoing_scan(m, bf, k) ==
    IF k > Len(m.ongoing_pieces) THEN [exc |-> "", k |-> 0]
    ELSE LET index == m.ongoing_pieces[k]
         IN  IF ~InBitfield(bf, index) THEN [exc |-> "IndexError", k |-> 0]
             ELSE IF bf[index + 1] = 1
                     /\ Piece_next_request(m.blocks[index]).k # 0
                  THEN [exc |-> "", k |-> k]
                  ELSE ongoing_scan(m, bf, k + 1)

next_ongoing(m, peer_id) == ongoing_scan(m, m.peers[peer_id], 1)

\* PieceManager._get_rarest_piece: the loop that fills piece_count
RarestIndexError(m, peer_id) ==
    \E index \in Range(m.missing_pieces) :
        \/ ~InBitfield(m.peers[peer_id], index)
        \/ /\ m.peers[peer_id][index + 1] = 1
           /\ \E p \in DOMAIN m.peers : ~InBitfield(m.peers[p], index)

\* the keys of piece_count
RarestCandidates(m, peer_id) ==
    {index \in Range(m.missing_pieces) : m.peers[peer_id][index + 1] = 1}

piece_count(m, index) ==
    Cardinality({p \in DOMAIN m.peers : m.peers[p][index + 1] = 1})

\* min(piece_count, key=...) returns the first key of least count in the
\* iteration order of the dict, which for Piece keys is not fixed by the
\* language: any key of least count can be the result.  {0} stands for the
\* calls that do not get to min() or in which it raises.
RarestChoices(m, peer_id) ==
    IF peer_id \in DOMAIN m.peers /\ ~RarestIndexError(m, peer_id)
       /\ RarestCandidates(m, peer_id) # {}
    THEN {index \in RarestCandidates(m, peer_id) :
            \A other \in RarestCandidates(m, peer_id) :
                piece_count(m, index) <= piece_count(m, other)}
    ELSE {0}

move_to_ongoing_keeps(m, rarest_piece) ==
    [m EXCEPT !.ongoing_pieces = Append(@, rarest_piece)]

\* _get_rarest_piece: missing_pieces.remove and ongoing_pieces.append
move_to_ongoing(m, rarest_piece) ==
    [m EXCEPT !.missing_pieces = Remove(@, rarest_piece),
              !.ongoing_pieces = Append(@, rarest_piece)]

BlockRef(b) == <<b.piece, b.offset, b.length>>

PendingRequest(block, added) ==
    [piece |-> block.piece, offset |-> block.offset, added |-> added]

\* PieceManager.next_request.  rarest_piece is the result of min() when the
\* call gets to _get_rarest_piece.  exc is the exception raised, "" if none.
next_request(m, peer_id, rarest_piece) ==
    IF peer_id \notin DOMAIN m.peers THEN [exc |-> "", ret |-> None, m |-> m]
    ELSE IF expired_requests(m, peer_id) # "" THEN
        [exc |-> expired_requests(m, peer_id), ret |-> None, m |-> m]
    ELSE IF next_ongoing(m, peer_id).exc # "" THEN
        [exc |-> next_ongoing(m, peer_id).exc, ret |-> None, m |-> m]
    ELSE IF next_ongoing(m, peer_id).k # 0 THEN
        LET index == m.ongoing_pieces[next_ongoing(m, peer_id).k]
            r     == Piece_next_request(m.blocks[index])
            block == r.blocks[r.k]
        IN  [exc |-> "", ret |-> BlockRef(block),
             m |-> [m EXCEPT !.blocks[index] = r.blocks,
                             !.pending_blocks =
                                 Append(@, PendingRequest(block, now))]]
    ELSE IF RarestIndexError(m, peer_id) THEN
        [exc |-> "IndexError", ret |-> None, m |-> m]
    ELSE IF RarestCandidates(m, peer_id) = {} THEN
        [exc |-> "ValueError", ret |-> None, m |-> m]
    ELSE
        LET r == Piece_next_request(m.blocks[rarest_piece])
        IN  [exc |-> "",
             ret |-> IF r.k = 0 THEN None ELSE BlockRef(r.blocks[r.k]),
             m |-> [move_to_ongoing(m, rarest_piece)
                       EXCEPT !.blocks[rarest_piece] = r.blocks]]

write_at_index(m, index, bs) ==
    Append(m.written, [pos |-> index, data |-> Piece_data(bs)])

\* PieceManager._write: os.lseek and os.write
write(m, index, bs) ==
    Append(m.written, [pos |-> index * torrent.piece_length,
                       data |-> Piece_data(bs)])

\* a variant of block_received that looks for the piece in have_pieces too
block_received_have(m, peer_id, piece_index, block_offset, data) ==
    LET k == FirstIndex([j \in DOMAIN m.pending_blocks |->
                            /\ m.pending_blocks[j].piece = piece_index
                            /\ m.pending_blocks[j].offset = block_offset])
        m1 == IF k # 0
              THEN [m EXCEPT !.pending_blocks = RemoveAt(@, k)]
              ELSE m
    IN
    IF piece_index \notin Range(m.ongoing_pieces \o m.have_pieces)
    THEN [outcome |-> "not ongoing", m |-> m1]
    ELSE
        LET bs == Piece_block_received(m.blocks[piece_index],
                                       block_offset, data)
        IN  IF ~is_complete(bs)
            THEN [outcome |-> "incomplete",
                  m |-> [m1 EXCEPT !.blocks[piece_index] = bs]]
            ELSE IF is_hash_matching(bs, torrent.pieces[piece_index + 1])
            THEN [outcome |-> "have",
                  m |-> [m1 EXCEPT
                            !.blocks[piece_index] = bs,
                            !.written = write(m, piece_index, bs),
                            !.ongoing_pieces = Remove(@, piece_index),
                            !.have_pieces = Append(@, piece_index)]]
            ELSE [outcome |-> "corrupt",
                  m |-> [m1 EXCEPT !.blocks[piece_index] = reset(bs)]]

\* PieceManager.block_received
block_received(m, peer_id, piece_index, block_offset, data) ==
    LET k == FirstIndex([j \in DOMAIN m.pending_blocks |->
                            /\ m.pending_blocks[j].piece = piece_index
                            /\ m.pending_blocks[j].offset = block_offset])
        m1 == IF k # 0
              THEN [m EXCEPT !.pending_blocks = RemoveAt(@, k)]
              ELSE m
    IN
    IF piece_index \notin Range(m.ongoing_pieces)
    THEN [outcome |-> "not ongoing", m |-> m1]
    ELSE
        LET bs == Piece_block_received(m.blocks[piece_index],
                                       block_offset, data)
        IN  IF ~is_complete(bs)
            THEN [outcome |-> "incomplete",
                  m |-> [m1 EXCEPT !.blocks[piece_index] = bs]]
            ELSE IF is_hash_matching(bs, torrent.pieces[piece_index + 1])
            THEN [outcome |-> "have",
                  m |-> [m1 EXCEPT
                            !.blocks[piece_index] = bs,
                            !.written = write(m, piece_index, bs),
                            !.ongoing_pieces = Remove(@, piece_index),
                            !.have_pieces = Append(@, piece_index)]]
            ELSE [outcome |-> "corrupt",
                  m |-> [m1 EXCEPT !.blocks[piece_index] = reset(bs)]]

(***************************************************************************)
(* The piece manager's fields after a step.  last records the last call    *)
(* made on the manager and how it ended: exc is the exception it raised    *)
(* ("" when it returned) and ret what it returned.                         *)
(***************************************************************************)
Call(op, peer_id, exc, ret) ==
    [op |-> op, peer |-> peer_id, exc |-> exc, ret |-> ret, outcome |-> ""]

\* the record of a block_received call and of what it did with the block
Received(outcome, index, offset) ==
    [op |-> "block_received", peer |-> 0, exc |-> "",
     ret |-> <<index, offset>>, outcome |-> outcome]

SetPM(m) ==
    /\ peers' = m.peers
    /\ pending_blocks' = m.pending_blocks
    /\ missing_pieces' = m.missing_pieces
    /\ ongoing_pieces' = m.ongoing_pieces
    /\ have_pieces' = m.have_pieces
    /\ blocks' = m.blocks
    /\ written' = m.written

\* PieceManager.__init__
PM_init(t) ==
    /\ torrent = t
    /\ peers = [p \in {} |-> <<>>]
    /\ pending_blocks = <<>>
    /\ missing_pieces = [k \in 1..Len(t.pieces) |-> k - 1]
    /\ ongoing_pieces = <<>>
    /\ have_pieces = <<>>
    /\ blocks = initiate_pieces(t)
    /\ fd = "open"
    /\ written = <<>>
    /\ last = Call("init", 0, "", None)

(***************************************************************************)
(* Inputs.                                                                 *)
(***************************************************************************)
\* The bitfields a peer sends: no byte at all, or one byte whose bits past
\* the last piece are zero.
BitFields ==
    {<<>>} \cup
    {[k \in 1..ByteBits |-> IF k - 1 \in have THEN 1 ELSE 0] :
        have \in SUBSET PieceIndexes}

\* The offsets a Piece message carries: those of blocks and one of no block.
Offsets ==
    {(k - 1) * REQUEST_SIZE :
        k \in 1..(Ceil(torrent.piece_length, REQUEST_SIZE) + 1)}

\* The payloads a Piece message carries for a block: the bytes of the file
\* or other bytes.
Payloads(index, offset) ==
    IF offset < TruePieceLen(torrent.piece_length, torrent.total_size, index)
    THEN LET good == TruePayload(torrent.piece_length, torrent.total_size,
                                 index, offset)
         IN  {good, Corrupt(good)}
    ELSE {<<0, 0>>}

(***************************************************************************)
(* SpecPM: the piece manager under any sequence of calls.                  *)
(***************************************************************************)
\* no worker pool
\* no TorrentClient.start is running
NoClient ==
    /\ cpc = "none"
    /\ abort = FALSE
    /\ previous = 0
    /\ current = 0
    /\ interval = 0
    /\ tracker = "open"
    /\ start_cancel = FALSE
    /\ signals = 0
    /\ announces = <<>>

\* the loop body of a connection has run for no message yet
NoMessage == [message |-> "", turn |-> 0]

\* Handshake.decode returned None
NoHandshake == [ok |-> FALSE, info_hash |-> <<>>, peer_id |-> <<>>]

\* no stream of bytes is being read
\* no conversion is under way
NotDone == [done |-> FALSE, exc |-> "", value |-> <<>>]

NotCalled ==
    [done |-> FALSE, method |-> "", offset |-> 0, data |-> <<>>, k |-> 0,
     blocks |-> <<>>]

NoCodec ==
    /\ source = [kind |-> "none", object |-> <<>>, data |-> <<>>]
    /\ encoded = NotDone
    /\ decoded = NotDone
    /\ loaded = NotDone
    /\ called = NotCalled

NoBytes ==
    /\ stream = <<>>
    /\ bytes_buffer = <<>>
    /\ parsed = [before |-> <<>>, message |-> <<>>, exc |-> ""]
    /\ bpc = "none"
    /\ hbuf = <<>>
    /\ tries = 0
    /\ received = <<>>
    /\ response = NoHandshake
    /\ NoCodec

NoWorkers ==
    /\ queue = <<>>
    /\ puts = 0
    /\ pc = <<>>
    /\ my_state = <<>>
    /\ peer_state = <<>>
    /\ remote_id = <<>>
    /\ writer = <<>>
    /\ must_cancel = <<>>
    /\ exit = <<>>
    /\ buffer = <<>>
    /\ inbox = <<>>
    /\ eof = <<>>
    /\ budget = <<>>
    /\ outstanding = <<>>
    /\ sent = <<>>
    /\ npiece = <<>>
    /\ nconn = <<>>
    /\ failed = <<>>
    /\ choking = <<>>
    /\ handled = <<>>

InitPM ==
    /\ \E t \in Torrents : PM_init(t)
    /\ now = 0
    /\ NoWorkers
    /\ NoClient
    /\ NoBytes

Tick ==
    /\ now < MaxTicks * TickMs
    /\ now' = now + TickMs
    /\ UNCHANGED <<torrent, peers, pending_blocks, missing_pieces,
                   ongoing_pieces, have_pieces, blocks, fd, written, last>>
    /\ UNCHANGED <<wvars, cvars, bvars>>

CallAddPeer ==
    \E p \in PeerIds, bf \in BitFields :
        /\ SetPM(add_peer(PM, p, bf))
        /\ last' = Call("add_peer", 0, "", None)
        /\ UNCHANGED <<torrent, fd, now, wvars, cvars, bvars>>

CallUpdatePeer ==
    \E p \in PeerIds, index \in PieceIndexes \cup {ByteBits} :
        /\ SetPM(update_peer(PM, p, index).m)
        /\ last' = Call("update_peer", p, update_peer(PM, p, index).exc, None)
        /\ UNCHANGED <<torrent, fd, now, wvars, cvars, bvars>>

CallRemovePeer ==
    \E p \in PeerIds :
        /\ SetPM(remove_peer(PM, p))
        /\ last' = Call("remove_peer", 0, "", None)
        /\ UNCHANGED <<torrent, fd, now, wvars, cvars, bvars>>

CallNextRequest ==
    \E p \in PeerIds : \E rarest_piece \in RarestChoices(PM, p) :
        LET r == next_request(PM, p, rarest_piece)
        IN  /\ SetPM(r.m)
            /\ last' = Call("next_request", p, r.exc, r.ret)
            /\ UNCHANGED <<torrent, fd, now, wvars, cvars, bvars>>

\* peer_id is only logged by block_received
CallBlockReceived ==
    \E p \in {1}, index \in PieceIndexes, offset \in Offsets :
        \E data \in Payloads(index, offset) :
            LET r == block_received(PM, p, index, offset, data)
            IN  /\ SetPM(r.m)
                /\ last' = Received(r.outcome, index, offset)
                /\ UNCHANGED <<torrent, fd, now, wvars, cvars, bvars>>

NextPM ==
    \/ Tick
    \/ CallAddPeer
    \/ CallUpdatePeer
    \/ CallRemovePeer
    \/ CallNextRequest
    \/ CallBlockReceived

SpecPM == InitPM /\ [][NextPM]_vars

(***************************************************************************)
(* Properties of the piece manager.                                        *)
(***************************************************************************)
NoDuplicates(s) == \A j, k \in DOMAIN s : s[j] = s[k] => j = k

\* The payloads of the blocks of a piece, in ascending offset order.
PayloadsInOffsetOrder(bs) ==
    [k \in DOMAIN bs |->
        (CHOOSE b \in Range(bs) :
            Cardinality({c \in Range(bs) : c.offset < b.offset}) = k - 1).data]

\* C1: after any sequence of piece manager calls, also calls that raised,
\* missing_pieces, ongoing_pieces and have_pieces are pairwise disjoint, hold
\* no piece twice and together hold total_pieces pieces; after construction
\* every piece is in missing_pieces.
C1_Partition ==
    /\ Range(missing_pieces) \cap Range(ongoing_pieces) = {}
    /\ Range(missing_pieces) \cap Range(have_pieces) = {}
    /\ Range(ongoing_pieces) \cap Range(have_pieces) = {}
    /\ NoDuplicates(missing_pieces)
    /\ NoDuplicates(ongoing_pieces)
    /\ NoDuplicates(have_pieces)
    /\ Len(missing_pieces) + Len(ongoing_pieces) + Len(have_pieces)
          = total_pieces
    /\ Range(missing_pieces) \cup Range(ongoing_pieces)
          \cup Range(have_pieces) = PieceIndexes
    /\ last.op = "init" => Range(missing_pieces) = PieceIndexes

\* a call has just raised while each of the three lists holds a piece or
\* the pieces are spread over two lists
C1_Witness ==
    /\ last.exc = "ValueError"
    /\ Len(ongoing_pieces) >= 1
    /\ Len(have_pieces) >= 1

\* C2: a step that puts a piece into have_pieces is a block_received call
\* after which all blocks of the piece are Retrieved and the SHA-1 of their
\* payloads in offset order is the digest of the meta-info.
C2_HaveOnlyAfterDigestMatch ==
    [][\A index \in Range(have_pieces') \ Range(have_pieces) :
          /\ last'.op = "block_received"
          /\ last'.ret[1] = index
          /\ \A k \in DOMAIN blocks'[index] :
                blocks'[index][k].status = Retrieved
          /\ Sha1(PayloadsInOffsetOrder(blocks'[index]))
                = torrent.pieces[index + 1]]_vars

\* a piece has just been moved to have_pieces
C2_Witness ==
    /\ last.op = "block_received"
    /\ last.outcome = "have"
    /\ last.ret[1] \in Range(have_pieces)

\* C3: when block_received completes a piece whose digest does not match,
\* all blocks of the piece are Missing again, the piece stays ongoing,
\* nothing is written and nothing is raised; and a next_request that follows
\* from a registered peer that has the piece (a piece that has blocks)
\* returns a block, the first block of that piece when no other ongoing
\* piece comes before it.
C3_CorruptStep ==
    (last'.op = "block_received" /\ last'.outcome = "corrupt") =>
        LET index == last'.ret[1]
        IN  /\ \A k \in DOMAIN blocks'[index] :
                  blocks'[index][k].status = Missing
            /\ index \in Range(ongoing_pieces')
            /\ written' = written
            /\ last'.exc = ""

C3_RequestAfterCorrupt ==
    (/\ last.op = "block_received" /\ last.outcome = "corrupt"
     /\ blocks[last.ret[1]] # <<>>
     /\ last'.op = "next_request"
     /\ last'.peer \in DOMAIN peers
     /\ InBitfield(peers[last'.peer], last.ret[1])
     /\ peers[last'.peer][last.ret[1] + 1] = 1) =>
        /\ last'.exc = ""
        /\ last'.ret # None
        /\ blocks[last'.ret[1]] # blocks'[last'.ret[1]]
        /\ ongoing_pieces[1] = last.ret[1] =>
              last'.ret = BlockRef(blocks[last.ret[1]][1])

C3_CorruptPieceIsRequestedAgain ==
    [][C3_CorruptStep /\ C3_RequestAfterCorrupt]_vars

\* C5: the os.write calls are those of the pieces of have_pieces, in the
\* order they were moved, each at piece_index * piece_length with the
\* payloads of its blocks in offset order; when the manager is complete the
\* regions written are the pieces of the file, total_size bytes in all, and
\* every piece written has the digest of the meta-info.
C5_WrittenIsHave ==
    /\ Len(written) = Len(have_pieces)
    /\ \A k \in DOMAIN written :
          /\ written[k].pos = have_pieces[k] * torrent.piece_length
          /\ written[k].data = PayloadsInOffsetOrder(blocks[have_pieces[k]])
    /\ complete =>
          /\ \A index \in PieceIndexes :
                \E k \in DOMAIN written :
                    /\ written[k].pos = index * torrent.piece_length
                    /\ written[k].pos + DataLen(written[k].data)
                          = IF index = total_pieces - 1
                            THEN torrent.total_size
                            ELSE (index + 1) * torrent.piece_length
                    /\ Sha1(written[k].data) = torrent.pieces[index + 1]

\* the download is complete and the last piece written is the second one
C5_Witness ==
    /\ complete
    /\ Len(written) = total_pieces
    /\ written[Len(written)].pos = torrent.piece_length

(***************************************************************************)
(* PeerStreamIterator and PeerConnection (protocol.py).                    *)
(*                                                                         *)
(* A frame is a tuple whose first element names the message:               *)
(* <<"BitField", bitfield>>, <<"Have", index>>, <<"Piece", index, begin,   *)
(* block>>, <<"Choke">>, <<"Unchoke">>, <<"KeepAlive">>, ...  A socket     *)
(* read delivers whole frames.                                             *)
(***************************************************************************)
\* buffer[a:b] and buffer[a:] of Python
Slice(s, a, b) == SubSeq(s, a + 1, IF b < Len(s) THEN b ELSE Len(s))
From(s, a) == SubSeq(s, a + 1, Len(s))

\* _handshake: the loop reads while tries < 10
MaxTries == 10

\* Handshake.length
Handshake_length == 49 + 19

\* Torrent.info_hash of the torrent being downloaded, the info_hash of
\* another torrent, and the peer_id of a peer
info_hash == [i \in 1..20 |-> 100 + i]
other_hash == [i \in 1..20 |-> 130 + i]
PeerIdBytes(id) == [i \in 1..20 |-> 200 + id]

\* b'BitTorrent protocol'
pstr ==
    <<66, 105, 116, 84, 111, 114, 114, 101, 110, 116, 32, 112, 114, 111, 116,
      111, 99, 111, 108>>

\* Handshake.encode: struct.pack('>B19s8x20s20s', 19, pstr, info_hash,
\* peer_id)
Handshake_encode(hash, peer_id) ==
    <<19>> \o pstr \o [i \in 1..8 |-> 0] \o hash \o peer_id

\* Handshake.decode: None for less than 68 bytes, else the fields of
\* struct.unpack('>B19s8x20s20s', data), of which parts[2] and parts[3] are
\* used
Handshake_decode(data) ==
    IF Len(data) < 49 + 19
    THEN NoHandshake
    ELSE [ok |-> TRUE, info_hash |-> Slice(data, 28, 48),
          peer_id |-> Slice(data, 48, 68)]

handshake_any_hash(b) ==
    LET r == Handshake_decode(Slice(b, 0, Handshake_length))
    IN  IF ~r.ok
        THEN [exc |-> "ProtocolError", response |-> r, buffer |-> <<>>]
        ELSE [exc |-> "", response |-> r,
              buffer |-> From(b, Handshake_length)]

\* PeerConnection._handshake after its read loop, on the bytes b of buf:
\* the ProtocolError it raises ("" for none), the response and the
\* remaining bytes it returns
PeerConnection_handshake(b) ==
    LET r == Handshake_decode(Slice(b, 0, Handshake_length))
    IN  IF ~r.ok
        THEN [exc |-> "ProtocolError", response |-> r, buffer |-> <<>>]
        ELSE IF ~(r.info_hash = info_hash)
             THEN [exc |-> "ProtocolError", response |-> r, buffer |-> <<>>]
             ELSE [exc |-> "", response |-> r,
                   buffer |-> From(b, Handshake_length)]

\* buf when the read loop of _handshake has ended, for a peer of this
\* torrent, and for a peer of another torrent and one that closes within its
\* handshake
GoodReplies == {Handshake_encode(info_hash, PeerIdBytes(1))}
BadReplies ==
    { Handshake_encode(other_hash, PeerIdBytes(2)),
      SubSeq(Handshake_encode(info_hash, PeerIdBytes(2)), 1, 48) }
Replies(env) ==
    GoodReplies \cup (IF "protocol" \in env THEN BadReplies ELSE {})

\* the peer whose peer_id the bytes are
IdOf(peer_id) == CHOOSE id \in PeerIds : PeerIdBytes(id) = peer_id

\* the message ids PeerStreamIterator.parse dispatches on
KnownIds == {"Choke", "Unchoke", "Interested", "NotInterested", "Have",
             "BitField", "Request", "Piece", "Cancel"}

\* PeerStreamIterator.parse: one call.  A KeepAlive is four bytes: it is
\* seen only when more bytes follow it, and it is not consumed; a frame of
\* an id parse does not know is not consumed either.
parse(buf) ==
    IF buf = <<>> THEN [message |-> None, buffer |-> buf]
    ELSE IF Head(buf)[1] = "KeepAlive"
         THEN IF Len(buf) = 1
              THEN [message |-> None, buffer |-> buf]
              ELSE [message |-> Head(buf), buffer |-> buf]
         ELSE IF Head(buf)[1] \in KnownIds
              THEN [message |-> Head(buf), buffer |-> Tail(buf)]
              ELSE [message |-> None, buffer |-> buf]

react_on_my_state(m, ms, ps, rid, message) ==
    LET same == [exc |-> "", ms |-> ms, ps |-> ps, m |-> m, call |-> last]
        id   == message[1]
    IN  CASE id = "BitField" ->
                [same EXCEPT !.m = add_peer(m, rid, message[2]),
                             !.call = Call("add_peer", 0, "", None)]
          [] id = "Interested" ->
                [same EXCEPT !.ms = Append(ms, "interested")]
          [] id = "NotInterested" ->
                IF "interested" \in Range(ps)
                THEN [same EXCEPT !.ms = Remove(ms, "interested")]
                ELSE same
          [] id = "Choke" ->
                [same EXCEPT !.ms = Append(ms, "choked")]
          [] id = "Unchoke" ->
                IF "choked" \in Range(ms)
                THEN [same EXCEPT !.ms = Remove(ms, "choked")]
                ELSE same
          [] id = "Have" ->
                [same EXCEPT
                    !.exc = update_peer(m, rid, message[2]).exc,
                    !.m = update_peer(m, rid, message[2]).m,
                    !.call = Call("update_peer", rid,
                                  update_peer(m, rid, message[2]).exc, None)]
          [] id = "Piece" ->
                IF "pending_request" \notin Range(ms)
                THEN [same EXCEPT !.exc = "ValueError"]
                ELSE LET r == block_received(m, rid, message[2], message[3],
                                             message[4])
                     IN  [same EXCEPT
                            !.ms = Remove(ms, "pending_request"),
                            !.m = r.m,
                            !.call = Received(r.outcome, message[2],
                                              message[3])]
          [] OTHER -> same

\* PeerConnection._start, the branches on type(message).  call is the value
\* of last after the reaction.
react(m, ms, ps, rid, message) ==
    LET same == [exc |-> "", ms |-> ms, ps |-> ps, m |-> m, call |-> last]
        id   == message[1]
    IN  CASE id = "BitField" ->
                [same EXCEPT !.m = add_peer(m, rid, message[2]),
                             !.call = Call("add_peer", 0, "", None)]
          [] id = "Interested" ->
                [same EXCEPT !.ps = Append(ps, "interested")]
          [] id = "NotInterested" ->
                IF "interested" \in Range(ps)
                THEN [same EXCEPT !.ps = Remove(ps, "interested")]
                ELSE same
          [] id = "Choke" ->
                [same EXCEPT !.ms = Append(ms, "choked")]
          [] id = "Unchoke" ->
                IF "choked" \in Range(ms)
                THEN [same EXCEPT !.ms = Remove(ms, "choked")]
                ELSE same
          [] id = "Have" ->
                [same EXCEPT
                    !.exc = update_peer(m, rid, message[2]).exc,
                    !.m = update_peer(m, rid, message[2]).m,
                    !.call = Call("update_peer", rid,
                                  update_peer(m, rid, message[2]).exc, None)]
          [] id = "Piece" ->
                IF "pending_request" \notin Range(ms)
                THEN [same EXCEPT !.exc = "ValueError"]
                ELSE LET r == block_received(m, rid, message[2], message[3],
                                             message[4])
                     IN  [same EXCEPT
                            !.ms = Remove(ms, "pending_request"),
                            !.m = r.m,
                            !.call = Received(r.outcome, message[2],
                                              message[3])]
          [] OTHER -> same

may_request_while_pending(ms) ==
    /\ "choked" \notin Range(ms)
    /\ "interested" \in Range(ms)

may_request_while_choked(ms) ==
    /\ "interested" \in Range(ms)
    /\ "pending_request" \notin Range(ms)

\* PeerConnection._start: the test before _request_piece
may_request(ms) ==
    /\ "choked" \notin Range(ms)
    /\ "interested" \in Range(ms)
    /\ "pending_request" \notin Range(ms)

\* PeerConnection._start: the body of the async for loop for one message,
\* up to the next await.  request is the block a Request was written for.
handle(m, ms, ps, rid, message, rarest_piece) ==
    LET a == react(m, ms, ps, rid, message)
    IN  IF a.exc # "" \/ ~may_request(a.ms)
        THEN [exc |-> a.exc, ms |-> a.ms, ps |-> a.ps, m |-> a.m,
              call |-> a.call, request |-> None]
        ELSE LET r == next_request(a.m, rid, rarest_piece)
             IN  [exc |-> r.exc, ms |-> Append(a.ms, "pending_request"),
                  ps |-> a.ps, m |-> r.m,
                  call |-> Call("next_request", rid, r.exc, r.ret),
                  request |-> r.ret]

(***************************************************************************)
(* The task of one PeerConnection (PeerConnection._start run by the event  *)
(* loop), one action per await.  env is the set of outcomes the network    *)
(* may produce: "ok", "refused" (ConnectionRefusedError or TimeoutError),  *)
(* "oserror" (another OSError of open_connection), "protocol" (no or a     *)
(* foreign handshake), "reset" (ConnectionResetError).                     *)
(***************************************************************************)
AllOutcomes == {"ok", "refused", "oserror", "protocol", "reset"}

stopped(w) == "stopped" \in Range(my_state[w])

\* the outcomes of an await: those of the network, and CancelledError when
\* a cancel of the task is pending
Outcomes(w, env, of) ==
    (env \cap of) \cup (IF must_cancel[w] THEN {"cancelled"} ELSE {})

\* the failure an outcome is recorded as
Failure(w, o) == IF o = "cancelled" THEN failed[w] ELSE o

cancel_keeps_socket(w) == writer[w]

\* PeerConnection.cancel, on the socket
cancel(w) == IF writer[w] = "none" THEN "none" ELSE "closed"

\* PeerConnection._start: an except clause that logs (or the end of the async
\* for), then cancel() at the end of the loop body, then the loop test and
\* the call of queue.get, which returns at once when the queue is not empty.
EndOfConnection(w, ms, why) ==
    /\ my_state' = [my_state EXCEPT ![w] = ms]
    /\ must_cancel' = [must_cancel EXCEPT ![w] = TRUE]
    /\ writer' = [writer EXCEPT ![w] = cancel(w)]
    /\ failed' = [failed EXCEPT ![w] = why]
    /\ buffer' = [buffer EXCEPT ![w] = <<>>]
    /\ inbox' = [inbox EXCEPT ![w] = <<>>]
    /\ eof' = [eof EXCEPT ![w] = FALSE]
    /\ budget' = [budget EXCEPT ![w] = 0]
    /\ outstanding' = [outstanding EXCEPT ![w] = <<>>]
    /\ IF "stopped" \in Range(ms)
       THEN /\ pc' = [pc EXCEPT ![w] = "done"]
            /\ exit' = [exit EXCEPT ![w] = "returned"]
            /\ queue' = queue
       ELSE IF queue # <<>>
            THEN /\ pc' = [pc EXCEPT ![w] = "connect"]
                 /\ queue' = Tail(queue)
                 /\ exit' = exit
            ELSE /\ pc' = [pc EXCEPT ![w] = "get"]
                 /\ UNCHANGED <<queue, exit>>

\* PeerConnection._start: except Exception: cancel(), then the exception
\* leaves _start and ends the task.
Die(w, ms) ==
    /\ my_state' = [my_state EXCEPT ![w] = ms]
    /\ must_cancel' = [must_cancel EXCEPT ![w] = FALSE]
    /\ writer' = [writer EXCEPT ![w] = cancel(w)]
    /\ buffer' = [buffer EXCEPT ![w] = <<>>]
    /\ inbox' = [inbox EXCEPT ![w] = <<>>]
    /\ eof' = [eof EXCEPT ![w] = FALSE]
    /\ budget' = [budget EXCEPT ![w] = 0]
    /\ outstanding' = [outstanding EXCEPT ![w] = <<>>]
    /\ pc' = [pc EXCEPT ![w] = "done"]
    /\ exit' = [exit EXCEPT ![w] = "raised"]
    /\ UNCHANGED <<queue, failed>>

\* CancelledError raised outside the try statement ends the task.
TaskCancelled(w) ==
    /\ pc' = [pc EXCEPT ![w] = "done"]
    /\ exit' = [exit EXCEPT ![w] = "cancelled"]
    /\ must_cancel' = [must_cancel EXCEPT ![w] = FALSE]
    /\ UNCHANGED <<queue, my_state, writer, failed, buffer, inbox, eof,
                   budget, outstanding>>

\* the variables of a worker that only the handling of a message changes
readvars == <<peer_state, npiece, choking, handled>>

\* The first step of the task: the loop test and queue.get.
Start(w) ==
    /\ pc[w] = "start"
    /\ IF must_cancel[w] THEN TaskCancelled(w)
       ELSE /\ pc' = [pc EXCEPT ![w] = IF queue # <<>> THEN "connect"
                                       ELSE "get"]
            /\ queue' = IF queue # <<>> THEN Tail(queue) ELSE queue
            /\ UNCHANGED <<my_state, writer, failed, buffer, inbox, eof,
                           budget, outstanding, must_cancel, exit>>
    /\ UNCHANGED <<bvars, cvars, pmvars, puts, remote_id, sent, nconn, readvars>>

\* The task wakes up in queue.get: with an address, or with CancelledError.
GetReturns(w) ==
    /\ pc[w] = "get"
    /\ IF must_cancel[w] THEN TaskCancelled(w)
       ELSE /\ queue # <<>>
            /\ pc' = [pc EXCEPT ![w] = "connect"]
            /\ queue' = Tail(queue)
            /\ UNCHANGED <<my_state, writer, failed, buffer, inbox, eof,
                           budget, outstanding, must_cancel, exit>>
    /\ UNCHANGED <<bvars, cvars, pmvars, puts, remote_id, sent, nconn, readvars>>

\* await asyncio.open_connection, which always suspends the task, and the
\* write of the Handshake.
Connect(w, env) ==
    /\ pc[w] = "connect"
    /\ IF must_cancel[w]
       THEN /\ EndOfConnection(w, my_state[w], failed[w])
            /\ UNCHANGED <<sent, nconn, npiece, choking, handled>>
       ELSE \E o \in env \cap {"ok", "refused", "oserror"} :
              IF o = "ok"
              THEN /\ writer' = [writer EXCEPT ![w] = "open"]
                   /\ nconn' = [nconn EXCEPT ![w] = @ + 1]
                   /\ sent' = [sent EXCEPT ![w] = <<"Handshake">>]
                   /\ npiece' = [npiece EXCEPT ![w] = 0]
                   /\ choking' = [choking EXCEPT ![w] = "none"]
                   /\ handled' = [handled EXCEPT ![w] = NoMessage]
                   /\ failed' = [failed EXCEPT ![w] = ""]
                   /\ budget' = [budget EXCEPT ![w] = MaxFrames]
                   /\ pc' = [pc EXCEPT ![w] = "handshake"]
                   /\ UNCHANGED <<queue, my_state, must_cancel, exit, buffer,
                                  inbox, eof, outstanding>>
              ELSE IF o = "refused"
              THEN /\ EndOfConnection(w, my_state[w], o)
                   /\ UNCHANGED <<sent, nconn, npiece, choking, handled>>
              ELSE /\ Die(w, my_state[w])
                   /\ UNCHANGED <<sent, nconn, npiece, choking, handled>>
    /\ UNCHANGED <<bvars, cvars, pmvars, puts, remote_id, peer_state>>

\* await self._handshake(): the drain and the reads, which end with the
\* bytes b, and the checks of the response.  The read that brings the peer's
\* handshake may bring the first j frames that follow it.  Then
\* my_state.append('choked') and the write of Interested.
Handshake(w, env) ==
    /\ pc[w] = "handshake"
    /\ \E o \in Outcomes(w, env, {"ok", "reset"}), b \in Replies(env) :
         IF o = "ok" /\ PeerConnection_handshake(b).exc = ""
         THEN \E j \in 0..Len(inbox[w]) :
                /\ remote_id' =
                     [remote_id EXCEPT ![w] =
                        IdOf(PeerConnection_handshake(b).response.peer_id)]
                /\ buffer' = [buffer EXCEPT ![w] = SubSeq(inbox[w], 1, j)]
                /\ inbox' = [inbox EXCEPT ![w] =
                                SubSeq(@, j + 1, Len(@))]
                /\ my_state' = [my_state EXCEPT ![w] = Append(@, "choked")]
                /\ sent' = [sent EXCEPT ![w] = Append(@, "Interested")]
                /\ pc' = [pc EXCEPT ![w] = "interested"]
                /\ UNCHANGED <<queue, must_cancel, writer, failed, eof,
                               budget, outstanding, exit>>
         ELSE /\ EndOfConnection(w, my_state[w],
                                 IF o = "ok" THEN "protocol"
                                 ELSE Failure(w, o))
              /\ UNCHANGED <<remote_id, sent>>
    /\ UNCHANGED <<bvars, cvars, pmvars, puts, nconn, readvars>>

\* await self._send_interested(): the drain; then
\* my_state.append('interested').
SendInterested(w, env) ==
    /\ pc[w] = "interested"
    /\ \E o \in Outcomes(w, env, {"ok", "reset"}) :
         IF o = "ok"
         THEN /\ my_state' = [my_state EXCEPT ![w] = Append(@, "interested")]
              /\ pc' = [pc EXCEPT ![w] = "read"]
              /\ UNCHANGED <<queue, must_cancel, writer, failed, buffer,
                             inbox, eof, budget, outstanding, exit>>
         ELSE EndOfConnection(w, my_state[w], Failure(w, o))
    /\ UNCHANGED <<bvars, cvars, pmvars, puts, remote_id, sent, nconn, readvars>>

\* await self.writer.drain() of _request_piece
RequestDrain(w, env) ==
    /\ pc[w] = "request"
    /\ \E o \in Outcomes(w, env, {"ok", "reset"}) :
         IF o = "ok"
         THEN /\ pc' = [pc EXCEPT ![w] = "read"]
              /\ UNCHANGED <<queue, my_state, must_cancel, writer, failed,
                             buffer, inbox, eof, budget, outstanding, exit>>
         ELSE EndOfConnection(w, my_state[w], Failure(w, o))
    /\ UNCHANGED <<bvars, cvars, pmvars, puts, remote_id, sent, nconn, readvars>>

\* what the peer's last Choke or Unchoke was
Choking(old, message) ==
    IF message[1] = "Choke" THEN "choke"
    ELSE IF message[1] = "Unchoke" THEN "unchoke" ELSE old

\* The body of the async for loop for the message __anext__ returned, with
\* buf the iterator's buffer after the parse.
Handle(w, message, buf, rest) ==
    IF stopped(w)
    THEN /\ EndOfConnection(w, my_state[w], failed[w])
         /\ UNCHANGED <<pmvars, sent, readvars>>
    ELSE \E rarest_piece \in
              RarestChoices(react(PM, my_state[w], peer_state[w],
                                  remote_id[w], message).m, remote_id[w]) :
           LET h == handle(PM, my_state[w], peer_state[w], remote_id[w],
                           message, rarest_piece)
           IN  /\ SetPM(h.m)
               /\ last' = h.call
               /\ peer_state' = [peer_state EXCEPT ![w] = h.ps]
               /\ npiece' = [npiece EXCEPT ![w] =
                                IF message[1] = "Piece" THEN @ + 1 ELSE @]
               /\ choking' = [choking EXCEPT ![w] = Choking(@, message)]
               /\ handled' = [handled EXCEPT ![w] =
                                 [message |-> message[1], turn |-> 1 - @.turn]]
               /\ UNCHANGED <<torrent, fd, now>>
               /\ IF h.exc # ""
                  THEN Die(w, h.ms) /\ UNCHANGED sent
                  ELSE /\ my_state' = [my_state EXCEPT ![w] = h.ms]
                       /\ buffer' = [buffer EXCEPT ![w] = buf]
                       /\ inbox' = [inbox EXCEPT ![w] = rest]
                       /\ UNCHANGED <<queue, must_cancel, writer, failed,
                                      eof, budget, exit>>
                       /\ IF h.request # None
                          THEN /\ sent' = [sent EXCEPT ![w] =
                                              Append(@, "Request")]
                               /\ outstanding' = [outstanding EXCEPT ![w] =
                                              Append(@, h.request)]
                               /\ pc' = [pc EXCEPT ![w] = "request"]
                          ELSE UNCHANGED <<sent, outstanding, pc>>

\* PeerStreamIterator.__anext__: one reader.read and what follows it up to
\* the next await.  A read brings the first k frames the peer has sent; at
\* the end of the stream it brings nothing.
IterNext(w, env) ==
    /\ pc[w] = "read"
    /\ \E o \in Outcomes(w, env, {"ok", "reset"}) :
         IF o = "ok"
         THEN \/ \E k \in 1..Len(inbox[w]) :
                   LET p == parse(buffer[w] \o SubSeq(inbox[w], 1, k))
                       rest == SubSeq(inbox[w], k + 1, Len(inbox[w]))
                   IN  IF p.message # None
                       THEN Handle(w, p.message, p.buffer, rest)
                       ELSE /\ buffer' = [buffer EXCEPT ![w] = p.buffer]
                            /\ inbox' = [inbox EXCEPT ![w] = rest]
                            /\ UNCHANGED <<pmvars, queue, pc, my_state,
                                           must_cancel, writer, failed, eof,
                                           budget, outstanding, exit, sent,
                                           readvars>>
              \/ /\ inbox[w] = <<>>
                 /\ eof[w]
                 /\ LET p == parse(buffer[w])
                    IN  IF p.message # None
                        THEN Handle(w, p.message, p.buffer, <<>>)
                        ELSE /\ EndOfConnection(w, my_state[w], "closed")
                             /\ UNCHANGED <<pmvars, sent, readvars>>
         ELSE /\ EndOfConnection(w, my_state[w], Failure(w, o))
              /\ UNCHANGED <<pmvars, sent, readvars>>
    /\ UNCHANGED <<bvars, cvars, puts, remote_id, nconn>>

\* PeerConnection.stop
Stop(w) ==
    /\ ~stopped(w)
    /\ my_state' = [my_state EXCEPT ![w] = Append(@, "stopped")]
    /\ must_cancel' = [must_cancel EXCEPT ![w] = @ \/ pc[w] # "done"]
    /\ UNCHANGED <<bvars, cvars, pmvars, queue, puts, pc, peer_state, remote_id, writer,
                   exit, buffer, inbox, eof, budget, outstanding, sent,
                   npiece, nconn, failed, choking, handled>>

\* TorrentClient.start: the addresses of a tracker response are put on the
\* queue in one step.
QueuePut ==
    /\ puts = 0
    /\ \E n \in 1..MaxPuts :
         /\ puts' = n
         /\ queue' = [k \in 1..n |-> k]
    /\ UNCHANGED <<bvars, cvars, pmvars, pc, my_state, peer_state, remote_id, writer,
                   must_cancel, exit, buffer, inbox, eof, budget,
                   outstanding, sent, npiece, nconn, failed, choking, handled>>

connected(w) ==
    /\ pc[w] \in {"handshake", "interested", "read", "request"}
    /\ ~eof[w]

\* The remote peer sends a frame.
PeerSend(w, frame) ==
    /\ connected(w)
    /\ budget[w] > 0
    /\ Len(inbox[w]) < MaxInFlight
    /\ budget' = [budget EXCEPT ![w] = @ - 1]
    /\ inbox' = [inbox EXCEPT ![w] = Append(@, frame)]
    /\ UNCHANGED <<bvars, cvars, pmvars, queue, puts, pc, my_state, peer_state, remote_id,
                   writer, must_cancel, exit, buffer, eof, outstanding, sent,
                   npiece, nconn, failed, choking, handled>>

\* The remote peer closes the connection.
PeerClose(w) ==
    /\ connected(w)
    /\ eof' = [eof EXCEPT ![w] = TRUE]
    /\ UNCHANGED <<bvars, cvars, pmvars, queue, puts, pc, my_state, peer_state, remote_id,
                   writer, must_cancel, exit, buffer, inbox, budget,
                   outstanding, sent, npiece, nconn, failed, choking, handled>>

\* The remote peer answers the oldest Request it has not answered: with
\* the block if it is honest, and else with the block or other bytes.  The
\* answers of an honest peer are bounded by the Requests.
PeerAnswer(w, honest) ==
    /\ connected(w)
    /\ honest \/ budget[w] > 0
    /\ Len(inbox[w]) < MaxInFlight
    /\ outstanding[w] # <<>>
    /\ LET r == Head(outstanding[w])
           good == TruePayload(torrent.piece_length, torrent.total_size,
                               r[1], r[2])
       IN  \E d \in IF honest THEN {good} ELSE {good, Corrupt(good)} :
             inbox' = [inbox EXCEPT ![w] =
                          Append(@, <<"Piece", r[1], r[2], d>>)]
    /\ outstanding' = [outstanding EXCEPT ![w] = Tail(@)]
    /\ budget' = [budget EXCEPT ![w] = IF honest THEN @ ELSE @ - 1]
    /\ UNCHANGED <<bvars, cvars, pmvars, queue, puts, pc, my_state, peer_state, remote_id,
                   writer, must_cancel, exit, buffer, eof, sent, npiece,
                   nconn, failed, choking, handled>>

\* the bitfield of a peer that has every piece
AllPieces == [k \in 1..ByteBits |-> IF k - 1 \in PieceIndexes THEN 1 ELSE 0]

\* the frames of an arbitrary peer, the answers to Requests apart
Frames ==
    {<<"BitField", AllPieces>>, <<"Choke">>, <<"Unchoke">>, <<"KeepAlive">>,
     <<"Have", 0>>,
     <<"Piece", 0, 0, TruePayload(torrent.piece_length, torrent.total_size,
                                  0, 0)>>}

\* the state after TorrentClient has built the PieceManager and the workers
InitWorkers ==
    /\ queue = <<>>
    /\ puts = 0
    /\ pc = [w \in 1..NWorkers |-> "start"]
    /\ my_state = [w \in 1..NWorkers |-> <<>>]
    /\ peer_state = [w \in 1..NWorkers |-> <<>>]
    /\ remote_id = [w \in 1..NWorkers |-> 0]
    /\ writer = [w \in 1..NWorkers |-> "none"]
    /\ must_cancel = [w \in 1..NWorkers |-> FALSE]
    /\ exit = [w \in 1..NWorkers |-> ""]
    /\ buffer = [w \in 1..NWorkers |-> <<>>]
    /\ inbox = [w \in 1..NWorkers |-> <<>>]
    /\ eof = [w \in 1..NWorkers |-> FALSE]
    /\ budget = [w \in 1..NWorkers |-> 0]
    /\ outstanding = [w \in 1..NWorkers |-> <<>>]
    /\ sent = [w \in 1..NWorkers |-> <<>>]
    /\ npiece = [w \in 1..NWorkers |-> 0]
    /\ nconn = [w \in 1..NWorkers |-> 0]
    /\ failed = [w \in 1..NWorkers |-> ""]
    /\ choking = [w \in 1..NWorkers |-> "none"]
    /\ handled = [w \in 1..NWorkers |-> NoMessage]

InitPeer ==
    /\ \E t \in Torrents : PM_init(t)
    /\ now = 0
    /\ InitWorkers
    /\ NoClient
    /\ NoBytes

Run(w, env) ==
    \/ Start(w)
    \/ GetReturns(w)
    \/ Connect(w, env)
    \/ Handshake(w, env)
    \/ SendInterested(w, env)
    \/ IterNext(w, env)
    \/ RequestDrain(w, env)

NextPeer ==
    \/ QueuePut
    \/ \E w \in Workers : Run(w, AllOutcomes)
    \/ \E w \in Workers : Stop(w)
    \/ \E w \in Workers : \E frame \in Frames : PeerSend(w, frame)
    \/ \E w \in Workers : PeerAnswer(w, FALSE)
    \/ \E w \in Workers : PeerClose(w)

SpecPeer == InitPeer /\ [][NextPeer]_vars

(***************************************************************************)
(* SpecLive: one worker and a peer that has every piece, sends its         *)
(* BitField and Unchoke, answers every Request with the block and keeps    *)
(* the connection; no await fails.                                         *)
(***************************************************************************)
\* what a peer that has every piece sends without being asked
Greeting(w) ==
    IF budget[w] = MaxFrames THEN <<"BitField", AllPieces>>
    ELSE <<"Unchoke">>

PeerGreets(w) ==
    /\ budget[w] > MaxFrames - 2
    /\ PeerSend(w, Greeting(w))

NextLive ==
    \/ QueuePut
    \/ \E w \in Workers : Run(w, {"ok"})
    \/ \E w \in Workers : PeerGreets(w)
    \/ \E w \in Workers : PeerAnswer(w, TRUE)

SpecLive ==
    /\ InitPeer
    /\ [][NextLive]_vars
    /\ WF_vars(QueuePut)
    /\ \A w \in 1..NWorkers :
          /\ WF_vars(Run(w, {"ok"}))
          /\ WF_vars(PeerGreets(w))
          /\ WF_vars(PeerAnswer(w, TRUE))

\* C4: if a peer stays connected, advertises every piece, unchokes the
\* client and answers every Request with the correct block, the piece
\* manager eventually reports complete.
C4_EventuallyComplete == <>complete

SpecPeerFair ==
    /\ SpecPeer
    /\ \A w \in 1..NWorkers : WF_vars(Run(w, AllOutcomes))

(***************************************************************************)
(* Properties of the peer worker.                                          *)
(***************************************************************************)
RECURSIVE NRequests(_)
\* the Request messages among the messages written
NRequests(s) ==
    IF s = <<>> THEN 0
    ELSE (IF Head(s) = "Request" THEN 1 ELSE 0) + NRequests(Tail(s))

\* C6: within one peer session the number of Request messages the worker
\* has sent minus the number of Piece messages it has received is never
\* greater than 1.
C6_AtMostOneOutstanding ==
    \A w \in Workers : NRequests(sent[w]) - npiece[w] <= 1

\* a second Request has been sent after the Piece answering the first
C6_Witness ==
    \E w \in Workers : NRequests(sent[w]) = 2 /\ npiece[w] = 1

C7_Step ==
    \A w \in Workers :
        NRequests(sent'[w]) > NRequests(sent[w]) =>
            /\ "choked" \notin Range(my_state'[w])
            /\ "interested" \in Range(my_state'[w])
            /\ choking'[w] # "choke"
            /\ remote_id[w] # 0
            /\ Len(sent[w]) >= 2
            /\ sent[w][1] = "Handshake"
            /\ sent[w][2] = "Interested"

\* C7: a worker sends a Request only when its local state does not contain
\* 'choked' and contains 'interested'; none is sent between a Choke and the
\* next Unchoke, and none before the handshake succeeded and Interested was
\* sent.
C7_RequestOnlyWhenUnchokedAndInterested == [][C7_Step]_vars

\* a Request has been sent to a peer that unchoked the worker
C7_Witness ==
    \E w \in Workers :
        /\ NRequests(sent[w]) >= 1
        /\ choking[w] = "unchoke"
        /\ "pending_request" \in Range(my_state[w])

\* the failures of a connection that C8 lists
C8_Failures == {"refused", "reset", "closed", "protocol"}

\* C8: when a peer connection fails and the worker has not been stopped, the
\* worker goes back to the queue and connects to the next address; its task
\* does not terminate.
C8_WorkerSurvivesFailure ==
    \A w \in Workers :
        (failed[w] \in C8_Failures /\ ~stopped(w)) => pc[w] # "done"

C9_Step ==
    \A w \in Workers :
        stopped(w) =>
            /\ nconn'[w] = nconn[w]
            /\ NRequests(sent'[w]) = NRequests(sent[w])

C9_SocketClosed ==
    \A w \in 1..NWorkers :
        (stopped(w) /\ pc[w] = "done") => writer[w] # "open"

\* C9: after stop() the worker opens no new connection and sends no further
\* Request, its task eventually terminates wherever it was waiting, and a
\* socket it had open is closed.
C9_StopTerminatesWorker ==
    /\ [][C9_Step]_vars
    /\ []C9_SocketClosed
    /\ \A w \in 1..NWorkers : stopped(w) ~> (pc[w] = "done")

\* a worker stopped while it had a connection has ended with the socket
\* closed
C9_Witness ==
    \E w \in Workers :
        /\ stopped(w)
        /\ pc[w] = "done"
        /\ writer[w] = "closed"
        /\ nconn[w] = 1
        /\ failed[w] = ""

(***************************************************************************)
(* TorrentClient (client.py) and the SIGINT handler of cli.py.             *)
(***************************************************************************)
MAX_PEER_CONNECTIONS == 40
\* start: interval = 30*60, in milliseconds
DefaultInterval == 30 * 60 * 1000

\* the interval of a tracker response
Intervals == {DefaultInterval, TickMs - 1}

\* the ways the task of start ends
Ended == {"returned", "raised", "cancelled"}

close_skipped(f) == f

\* PieceManager.close: the descriptor after os.close(self.fd)
PieceManager_close(f) == "closed"

\* Tracker.close
Tracker_close(t) == "closed"

\* the outcomes of os.close(self.fd): on a descriptor closed before it
\* raises OSError, or closes whatever was opened under the number since
CloseOutcomes == IF fd = "open" THEN {"ok"} ELSE {"ok", "OSError"}

\* TorrentClient.stop.  o is the outcome of os.close.
stop(o) ==
    /\ abort' = TRUE
    /\ my_state' = [w \in DOMAIN my_state |-> Append(my_state[w], "stopped")]
    /\ must_cancel' = [w \in DOMAIN must_cancel |->
                          must_cancel[w] \/ pc[w] # "done"]
    /\ IF o = "ok"
       THEN /\ fd' = PieceManager_close(fd)
            /\ tracker' = Tracker_close(tracker)
       ELSE UNCHANGED <<fd, tracker>>
    /\ UNCHANGED <<torrent, peers, pending_blocks, missing_pieces,
                   ongoing_pieces, have_pieces, blocks, written, now, last,
                   queue, puts, pc, peer_state, remote_id, writer, exit,
                   buffer, inbox, eof, budget, outstanding, sent, npiece,
                   nconn, failed, choking, handled>>

\* TorrentClient.start up to the loop: the workers are created.
StartWorkers ==
    /\ cpc = "start"
    /\ IF start_cancel
       THEN /\ cpc' = "cancelled"
            /\ UNCHANGED wvars
       ELSE /\ cpc' = "loop"
            /\ pc' = [w \in 1..MAX_PEER_CONNECTIONS |-> "start"]
            /\ my_state' = [w \in 1..MAX_PEER_CONNECTIONS |-> <<>>]
            /\ peer_state' = [w \in 1..MAX_PEER_CONNECTIONS |-> <<>>]
            /\ remote_id' = [w \in 1..MAX_PEER_CONNECTIONS |-> 0]
            /\ writer' = [w \in 1..MAX_PEER_CONNECTIONS |-> "none"]
            /\ must_cancel' = [w \in 1..MAX_PEER_CONNECTIONS |-> FALSE]
            /\ exit' = [w \in 1..MAX_PEER_CONNECTIONS |-> ""]
            /\ buffer' = [w \in 1..MAX_PEER_CONNECTIONS |-> <<>>]
            /\ inbox' = [w \in 1..MAX_PEER_CONNECTIONS |-> <<>>]
            /\ eof' = [w \in 1..MAX_PEER_CONNECTIONS |-> FALSE]
            /\ budget' = [w \in 1..MAX_PEER_CONNECTIONS |-> 0]
            /\ outstanding' = [w \in 1..MAX_PEER_CONNECTIONS |-> <<>>]
            /\ sent' = [w \in 1..MAX_PEER_CONNECTIONS |-> <<>>]
            /\ npiece' = [w \in 1..MAX_PEER_CONNECTIONS |-> 0]
            /\ nconn' = [w \in 1..MAX_PEER_CONNECTIONS |-> 0]
            /\ failed' = [w \in 1..MAX_PEER_CONNECTIONS |-> ""]
            /\ choking' = [w \in 1..MAX_PEER_CONNECTIONS |-> "none"]
            /\ handled' = [w \in 1..MAX_PEER_CONNECTIONS |-> NoMessage]
            /\ UNCHANGED <<queue, puts>>
    /\ UNCHANGED <<pmvars, abort, previous, current, interval, tracker,
                   start_cancel, signals, announces, bvars>>

\* TorrentClient.start: first=previous if previous else False, as the
\* truth value Tracker.connect tests
first(prev) == prev # 0

\* Tracker.connect: the event parameter of the query ("" when it has none)
\* and the reply, which is to come
connect(is_first) ==
    [event |-> IF is_first THEN "started" ELSE "", reply |-> ""]

\* the replies Tracker.connect raises ConnectionError on: a status other
\* than 200, and a body with a failure reason
FailedReplies == {"status", "failure"}

\* the reply to the last announce call has come
Replied(calls, r) == [calls EXCEPT ![Len(calls)].reply = r]

\* TorrentClient.start: one turn of the loop up to its await, or the break
\* and self.stop().
LoopTop ==
    /\ cpc = "loop"
    /\ IF complete \/ abort
       THEN /\ \E o \in CloseOutcomes :
                 /\ stop(o)
                 /\ cpc' = IF o = "ok" THEN "returned" ELSE "raised"
            /\ UNCHANGED <<current, announces>>
       ELSE /\ current' = now
            /\ IF previous = 0 \/ previous + interval < now
               THEN /\ cpc' = "announce"
                    /\ announces' = Append(announces,
                                           connect(first(previous)))
               ELSE /\ cpc' = "sleep"
                    /\ UNCHANGED announces
            /\ UNCHANGED <<pmvars, wvars, abort, tracker>>
    /\ UNCHANGED <<previous, interval, start_cancel, signals, bvars>>

\* a variant of _empty_queue that takes nothing from the queue
empty_queue_skipped(q) == q

\* TorrentClient._empty_queue: get_nowait until the queue is empty
empty_queue(q) == <<>>

\* put_nowait of each address of the response, in its order
put_peers(q, response_peers) == q \o response_peers

\* await self.tracker.connect(...) ends: with a response, whose peers
\* replace those of the queue, with ConnectionError, or with CancelledError.
AnnounceReturns ==
    /\ cpc = "announce"
    /\ IF start_cancel
       THEN /\ cpc' = "cancelled"
            /\ UNCHANGED <<previous, interval, queue, puts, announces>>
       ELSE \/ \E r \in FailedReplies :
                 /\ cpc' = "raised"
                 /\ announces' = Replied(announces, r)
                 /\ UNCHANGED <<previous, interval, queue, puts>>
            \/ \E i \in Intervals, n \in 0..MaxPuts :
                 /\ cpc' = "loop"
                 /\ announces' = Replied(announces, "peers")
                 /\ previous' = current
                 /\ interval' = i
                 /\ queue' = put_peers(empty_queue(queue),
                                       [k \in 1..n |-> k])
                 /\ puts' = n
    /\ UNCHANGED <<pmvars, pc, my_state, peer_state, remote_id, writer,
                   must_cancel, exit, buffer, inbox, eof, budget,
                   outstanding, sent, npiece, nconn, failed, choking, handled,
                   abort,
                   current, tracker, start_cancel, signals, bvars>>

\* await asyncio.sleep(5) ends
SleepReturns ==
    /\ cpc = "sleep"
    /\ cpc' = IF start_cancel THEN "cancelled" ELSE "loop"
    /\ UNCHANGED <<pmvars, wvars, abort, previous, current, interval,
                   tracker, start_cancel, signals, announces, bvars>>

\* cli.py signal_handler: client.stop() and task.cancel()
Signal ==
    /\ signals = 0
    /\ signals' = 1
    /\ \E o \in CloseOutcomes :
         /\ stop(o)
         /\ start_cancel' = (o = "ok" /\ cpc \notin Ended)
    /\ UNCHANGED <<cpc, previous, current, interval, announces, bvars>>

\* the state when cli.py has created the task of start
InitClient ==
    /\ \E t \in Torrents : PM_init(t)
    /\ now = 1
    /\ NoWorkers
    /\ cpc = "start"
    /\ abort = FALSE
    /\ previous = 0
    /\ current = 0
    /\ interval = DefaultInterval
    /\ tracker = "open"
    /\ start_cancel = FALSE
    /\ signals = 0
    /\ announces = <<>>
    /\ NoBytes

\* The piece manager calls of a worker whose peer has every piece and
\* answers with the block, made while start is suspended and the workers
\* are not stopped.
WorkersCall ==
    /\ cpc \in {"announce", "sleep"}
    /\ ~abort
    /\ \/ /\ SetPM(add_peer(PM, 1, AllPieces))
          /\ last' = Call("add_peer", 0, "", None)
       \/ \E rarest_piece \in RarestChoices(PM, 1) :
             LET r == next_request(PM, 1, rarest_piece)
             IN  /\ SetPM(r.m)
                 /\ last' = Call("next_request", 1, r.exc, r.ret)
       \/ /\ last.op = "next_request"
          /\ last.ret # None
          /\ LET r == block_received(PM, 1, last.ret[1], last.ret[2],
                           TruePayload(torrent.piece_length,
                                       torrent.total_size, last.ret[1],
                                       last.ret[2]))
             IN  /\ SetPM(r.m)
                 /\ last' = Received(r.outcome, last.ret[1], last.ret[2])
    /\ UNCHANGED <<torrent, fd, now, wvars, cvars, bvars>>

NextClient ==
    \/ StartWorkers
    \/ LoopTop
    \/ AnnounceReturns
    \/ SleepReturns
    \/ Signal
    \/ Tick
    \/ WorkersCall

SpecClient ==
    /\ InitClient
    /\ [][NextClient]_vars
    /\ WF_vars(StartWorkers)
    /\ WF_vars(LoopTop)
    /\ WF_vars(AnnounceReturns)
    /\ WF_vars(SleepReturns)

C10_Returned ==
    cpc = "returned" =>
        /\ DOMAIN my_state = 1..MAX_PEER_CONNECTIONS
        /\ \A w \in 1..MAX_PEER_CONNECTIONS : stopped(w)
        /\ fd = "closed"
        /\ tracker = "closed"

\* C10: once piece_manager.complete is true or abort is set, start
\* eventually leaves its loop; whenever start returns, each of the 40
\* workers has been told to stop, the piece manager's file handle has been
\* closed and the tracker has been closed.
C10_StartLeavesLoopAndStops ==
    /\ []C10_Returned
    /\ (complete \/ abort) ~> (cpc \in Ended)

\* start has returned after the download completed
C10_Witness ==
    /\ cpc = "returned"
    /\ complete
    /\ signals = 0
    /\ Cardinality(DOMAIN my_state) = MAX_PEER_CONNECTIONS

\* C11: a failed announce (a status other than 200, or a reply with a
\* failure reason) does not end start: the loop keeps running and the peer
\* queue and the announce interval are left unchanged.
C11_FailedAnnounceIsRetried ==
    [][(/\ announces' # announces
        /\ announces' # <<>>
        /\ announces'[Len(announces')].reply \in FailedReplies) =>
            /\ cpc' = "loop"
            /\ queue' = queue
            /\ interval' = interval]_vars

\* C12: the announce query carries event=started in the first announce call
\* and in no later one.
C12_StartedOnFirstAnnounceOnly ==
    \A k \in DOMAIN announces : (announces[k].event = "started") <=> (k = 1)

(***************************************************************************)
(* The stream of a peer as bytes: PeerStreamIterator over a reader whose   *)
(* read returns any number of the bytes that have arrived.                 *)
(***************************************************************************)
MaxWireFrames == 2

\* struct.unpack('>I', ..), struct.pack('>I', ..) and struct.unpack('>b', ..)
unpack_I(b) == ((b[1] * 256 + b[2]) * 256 + b[3]) * 256 + b[4]
\* a variant of struct.pack that packs the low 16 bits only
pack_I_low(n) == <<0, 0, (n \div 256) % 256, n % 256>>

pack_I(n) ==
    <<(n \div 16777216) % 256, (n \div 65536) % 256, (n \div 256) % 256,
      n % 256>>
unpack_b(b) == IF b < 128 THEN b ELSE b - 256

\* bitstring.BitArray(bytes=data): the bits of the bytes, the high bit first
Bits(data) ==
    [i \in 1..(ByteBits * Len(data)) |->
        (data[((i - 1) \div ByteBits) + 1]
            \div 2 ^ (ByteBits - 1 - ((i - 1) % ByteBits))) % 2]

\* PeerMessage: the message ids
PeerMessage ==
    [Choke |-> 0, Unchoke |-> 1, Interested |-> 2, NotInterested |-> 3,
     Have |-> 4, BitField |-> 5, Request |-> 6, Piece |-> 7, Cancel |-> 8,
     Port |-> 9]

\* a decoded message, or the struct.error of a struct.unpack whose data
\* has not the size of its format
Decoded(message) == [message |-> message, exc |-> ""]
StructError == [message |-> None, exc |-> "struct.error"]

\* BitField.decode: struct.unpack('>Ib' + str(message_length - 1) + 's')
BitField_decode(data) ==
    LET message_length == unpack_I(Slice(data, 0, 4))
    IN  IF Len(data) = 4 + 1 + (message_length - 1)
        THEN Decoded(<<"BitField", Bits(From(data, 5))>>)
        ELSE StructError

\* Have.decode: struct.unpack('>IbI', data)
Have_decode(data) ==
    IF Len(data) = 9
    THEN Decoded(<<"Have", unpack_I(Slice(data, 5, 9))>>)
    ELSE StructError

\* Request.decode and Cancel.decode: struct.unpack('>IbIII', data)
Request_decode(data) ==
    IF Len(data) = 17
    THEN Decoded(<<"Request", unpack_I(Slice(data, 5, 9)),
                   unpack_I(Slice(data, 9, 13)),
                   unpack_I(Slice(data, 13, 17))>>)
    ELSE StructError

Cancel_decode(data) ==
    IF Len(data) = 17
    THEN Decoded(<<"Cancel", unpack_I(Slice(data, 5, 9)),
                   unpack_I(Slice(data, 9, 13)),
                   unpack_I(Slice(data, 13, 17))>>)
    ELSE StructError

\* Piece.decode: struct.unpack('>IbII' + str(length - Piece.length) + 's',
\* data[:length+4]); a negative count is no format
Piece_decode(data) ==
    LET length == unpack_I(Slice(data, 0, 4))
        d == Slice(data, 0, length + 4)
    IN  IF length - 9 >= 0 /\ Len(d) = 13 + (length - 9)
        THEN Decoded(<<"Piece", unpack_I(Slice(d, 5, 9)),
                       unpack_I(Slice(d, 9, 13)), From(d, 13)>>)
        ELSE StructError

\* Have.encode: struct.pack('>IbI', 5, PeerMessage.Have, index)
Have_encode(index) == pack_I(5) \o <<PeerMessage.Have>> \o pack_I(index)

\* Request.encode and Cancel.encode: struct.pack('>IbIII', 13, id, index,
\* begin, length)
Request_encode(index, begin, length) ==
    pack_I(13) \o <<PeerMessage.Request>> \o pack_I(index) \o pack_I(begin)
        \o pack_I(length)

Cancel_encode(index, begin, length) ==
    pack_I(13) \o <<PeerMessage.Cancel>> \o pack_I(index) \o pack_I(begin)
        \o pack_I(length)

\* Piece.encode: struct.pack('>IbII' + str(len(block)) + 's',
\* Piece.length + len(block), PeerMessage.Piece, index, begin, block)
Piece_encode(index, begin, block) ==
    pack_I(9 + Len(block)) \o <<PeerMessage.Piece>> \o pack_I(index)
        \o pack_I(begin) \o block

header_length == 4

\* what a call of parse leaves: the message it returns (None for none), the
\* buffer, and the exception it raises ("" for none)
Result(message, buffer_, exc) ==
    [message |-> message, buffer |-> buffer_, exc |-> exc]

\* PeerStreamIterator.parse on the bytes b of self.buffer
parse_bytes(b) ==
    IF Len(b) > 4
    THEN LET message_length == unpack_I(Slice(b, 0, 4))
         IN  IF message_length = 0
             THEN Result(<<"KeepAlive">>, b, "")
             ELSE IF Len(b) >= message_length
                  THEN LET message_id == unpack_b(b[5])
                           consumed == From(b, header_length + message_length)
                           data == Slice(b, 0, header_length + message_length)
                           Decode(dec) ==
                               Result(dec.message, consumed, dec.exc)
                       IN  CASE message_id = PeerMessage.BitField ->
                                    Decode(BitField_decode(data))
                             [] message_id = PeerMessage.Interested ->
                                    Result(<<"Interested">>, consumed, "")
                             [] message_id = PeerMessage.NotInterested ->
                                    Result(<<"NotInterested">>, consumed, "")
                             [] message_id = PeerMessage.Choke ->
                                    Result(<<"Choke">>, consumed, "")
                             [] message_id = PeerMessage.Unchoke ->
                                    Result(<<"Unchoke">>, consumed, "")
                             [] message_id = PeerMessage.Have ->
                                    Decode(Have_decode(data))
                             [] message_id = PeerMessage.Piece ->
                                    Decode(Piece_decode(data))
                             [] message_id = PeerMessage.Request ->
                                    Decode(Request_decode(data))
                             [] message_id = PeerMessage.Cancel ->
                                    Decode(Cancel_decode(data))
                             [] OTHER -> Result(None, b, "")
                  ELSE Result(None, b, "")
    ELSE Result(None, b, "")

\* a frame on the wire: <length prefix><message ID><payload>
Frame(id, payload) == pack_I(1 + Len(payload)) \o <<id>> \o payload

\* the frames the peer of this development sends
WireFrames ==
    { pack_I(0),
      Frame(PeerMessage.Choke, <<>>),
      Frame(PeerMessage.Unchoke, <<>>),
      Frame(PeerMessage.Have, pack_I(1)),
      Frame(PeerMessage.BitField, <<192>>),
      Frame(PeerMessage.Piece, pack_I(0) \o pack_I(0) \o <<7, 9>>),
      Frame(PeerMessage.Port, <<26, 225>>) }

RECURSIVE Flatten(_)
Flatten(frames) ==
    IF frames = <<>> THEN <<>> ELSE Head(frames) \o Flatten(Tail(frames))

\* all a peer sends before it closes the connection
Streams ==
    { Flatten(f) : f \in UNION { [1..n -> WireFrames] : n \in 1..MaxWireFrames } }

\* the iterator of a new connection whose handshake left no bytes
InitParse ==
    /\ PM_init(MakeTorrent(REQUEST_SIZE, REQUEST_SIZE + 100))
    /\ now = 0
    /\ NoWorkers
    /\ NoClient
    /\ stream \in Streams
    /\ bytes_buffer = <<>>
    /\ parsed = [before |-> <<>>, message |-> None, exc |-> ""]
    /\ bpc = "iterating"
    /\ hbuf = <<>>
    /\ tries = 0
    /\ received = <<>>
    /\ response = NoHandshake
    /\ NoCodec

\* PeerStreamIterator.__anext__: reader.read returns k bytes, they are added
\* to the buffer and parse is called once; a message is returned, no message
\* reads again, an exception ends the iteration
AnextData(k) ==
    /\ bpc = "iterating"
    /\ k \in 1..Len(stream)
    /\ LET before == bytes_buffer \o SubSeq(stream, 1, k)
           r == parse_bytes(before)
       IN  /\ parsed' = [before |-> before, message |-> r.message,
                         exc |-> r.exc]
           /\ bytes_buffer' = r.buffer
           /\ bpc' = IF r.exc = "" THEN "iterating" ELSE "done"
    /\ stream' = From(stream, k)
    /\ received' = received \o SubSeq(stream, 1, k)
    /\ UNCHANGED <<pmvars, wvars, cvars, evars, hbuf, tries, response>>

\* PeerStreamIterator.__anext__: reader.read returns b'' at the end of the
\* stream; parse is called if the buffer holds bytes, and the iteration ends
\* unless it returns a message
AnextEof ==
    /\ bpc = "iterating"
    /\ stream = <<>>
    /\ IF bytes_buffer # <<>>
       THEN LET r == parse_bytes(bytes_buffer)
            IN  /\ parsed' = [before |-> bytes_buffer, message |-> r.message,
                              exc |-> r.exc]
                /\ bytes_buffer' = r.buffer
                /\ bpc' = IF r.exc = "" /\ r.message # None
                          THEN "iterating" ELSE "done"
       ELSE /\ bpc' = "done"
            /\ UNCHANGED <<parsed, bytes_buffer>>
    /\ UNCHANGED <<pmvars, wvars, cvars, evars, stream, hbuf, tries, received,
                   response>>

NextParse ==
    \/ \E k \in 1..Len(stream) : AnextData(k)
    \/ AnextEof

SpecParse == InitParse /\ [][NextParse]_vars

\* the number of bytes of the frame at the front of b (b holds its prefix)
FrameLen(b) == header_length + unpack_I(Slice(b, 0, 4))

\* C13: a parse call that returns a message removes exactly that message's
\* frame, the length prefix and length bytes, from the front of the buffer
\* and leaves the bytes after it, for every message kind including
\* KeepAlive.
C13_ParseRemovesTheFrame ==
    parsed.message # None =>
        bytes_buffer = From(parsed.before, FrameLen(parsed.before))

\* the buffer b holds less than the whole frame at its front
Partial(b) == Len(b) < header_length \/ Len(b) < FrameLen(b)

\* C14: parse returns None and leaves the buffer unchanged when the buffer
\* holds less than the whole frame at its front: nothing is produced from
\* and nothing is consumed of a partially received frame.
C14_PartialFrameIsKept ==
    Partial(parsed.before) =>
        /\ parsed.message = None
        /\ parsed.exc = ""
        /\ bytes_buffer = parsed.before

\* C15: when the frame at the front of the buffer is complete and has a
\* message id the parser does not know, parse removes the whole frame.
C15_UnknownFrameIsRemoved ==
    (/\ ~Partial(parsed.before)
     /\ FrameLen(parsed.before) > header_length
     /\ unpack_b(parsed.before[5]) \notin
            {PeerMessage[n] : n \in DOMAIN PeerMessage \ {"Port"}}) =>
        bytes_buffer = From(parsed.before, FrameLen(parsed.before))

(***************************************************************************)
(* PeerConnection._handshake on the bytes of the peer.                     *)
(***************************************************************************)
\* what peers send after their handshake
Tails ==
    { <<>>,
      Frame(PeerMessage.Unchoke, <<>>),
      Frame(PeerMessage.BitField, <<192>>) \o Frame(PeerMessage.Unchoke, <<>>)
        \o Frame(PeerMessage.Have, pack_I(1)) \o Frame(PeerMessage.Choke, <<>>) }

\* all a peer sends before it closes the connection: its handshake and
\* what follows, or the beginning of its handshake only
HandshakeStreams ==
    { Handshake_encode(h, p) \o t :
        h \in {info_hash, other_hash},
        p \in {PeerIdBytes(1), info_hash},
        t \in Tails }
    \cup { SubSeq(Handshake_encode(info_hash, PeerIdBytes(1)), 1, 48) }

\* _handshake has written its Handshake and is about to read
InitHandshake ==
    /\ PM_init(MakeTorrent(REQUEST_SIZE, REQUEST_SIZE + 100))
    /\ now = 0
    /\ NoWorkers
    /\ NoClient
    /\ stream \in HandshakeStreams
    /\ bytes_buffer = <<>>
    /\ parsed = [before |-> <<>>, message |-> None, exc |-> ""]
    /\ bpc = "handshake"
    /\ hbuf = <<>>
    /\ tries = 1
    /\ received = <<>>
    /\ response = NoHandshake
    /\ NoCodec

\* _handshake after a read that returned data: the loop test, and when the
\* loop ends the decoding, the checks, and PeerStreamIterator.__init__ with
\* the bytes returned
AfterRead(data) ==
    /\ hbuf' = data
    /\ tries' = tries + 1
    /\ IF Len(data) < Handshake_length /\ tries + 1 < MaxTries
       THEN UNCHANGED <<bpc, bytes_buffer, response>>
       ELSE LET r == PeerConnection_handshake(data)
            IN  /\ response' = r.response
                /\ bytes_buffer' = r.buffer
                /\ bpc' = IF r.exc = "" THEN "iterating" ELSE "protocol"
    /\ UNCHANGED <<pmvars, wvars, cvars, evars, parsed>>

\* the numbers of bytes a read of the handshake may return: all that is
\* left of the stream, or a part that ends the stream at a byte, at a field
\* of the handshake (pstrlen and pstr, reserved, info_hash, peer_id), or one
\* byte further
ReadSizes == {1, 20, 28, 48, 68, 69}

\* buf = await self.reader.read(CHUNK_SIZE) returns k bytes
HandshakeRead(k) ==
    /\ bpc = "handshake"
    /\ k \in 1..Len(stream)
    /\ k \in ReadSizes \cup {Len(stream)}
    /\ stream' = From(stream, k)
    /\ received' = received \o SubSeq(stream, 1, k)
    /\ AfterRead(SubSeq(stream, 1, k))

\* buf = await self.reader.read(CHUNK_SIZE) returns b'': the peer has closed
HandshakeEof ==
    /\ bpc = "handshake"
    /\ stream = <<>>
    /\ UNCHANGED <<stream, received>>
    /\ AfterRead(<<>>)

NextHandshake ==
    \/ \E k \in 1..Len(stream) : HandshakeRead(k)
    \/ HandshakeEof

SpecHandshake == InitHandshake /\ [][NextHandshake]_vars

\* C17: when the handshake succeeds, every byte received from the peer
\* after the first 68 is carried forward, in order and with none dropped,
\* as the initial buffer of the message stream, however the bytes were split
\* across the reads.
C17_BytesAfterHandshakeCarried ==
    bpc = "iterating" => bytes_buffer = From(received, Handshake_length)

\* the peers whose handshake _handshake rejects: those of no good reply
Rejected ==
    PeerIds \ { IdOf(Handshake_decode(b).peer_id) : b \in GoodReplies }

PieceHandled(w) == npiece'[w] = npiece[w] + 1

\* C18: every Piece message a worker receives, whether or not a request is
\* outstanding, is passed to block_received and the worker keeps running:
\* the step that handles the Piece does not end the worker's task, and a
\* Piece that came without a request leaves the worker connected.
C18_PieceKeepsWorkerRunning ==
    [][\A w \in 1..NWorkers :
          PieceHandled(w) =>
              /\ pc'[w] # "done"
              /\ exit'[w] = exit[w]
              /\ "pending_request" \notin Range(my_state[w]) =>
                     writer'[w] = writer[w]]_vars

\* the lists and block statuses of the piece manager are left as they are
PiecesUnchanged ==
    UNCHANGED <<pending_blocks, missing_pieces, ongoing_pieces, have_pieces,
                blocks>>

\* C19: a peer id that is not registered with the piece manager is treated
\* as having no pieces: next_request for it returns None and changes no block
\* status, piece list or pending request, update_peer for it registers
\* nothing and changes no bitfield, and the worker sends it no Request.
C19_UnregisteredPeerHasNoPieces ==
    [][/\ (last'.op = "next_request" /\ last'.peer \notin DOMAIN peers') =>
              /\ last'.ret = None
              /\ last'.exc = ""
              /\ peers' = peers
              /\ PiecesUnchanged
       /\ (last'.op = "update_peer" /\ last'.peer \notin DOMAIN peers) =>
              /\ last'.exc = ""
              /\ peers' = peers
              /\ PiecesUnchanged
       /\ \A w \in 1..NWorkers :
              NRequests(sent'[w]) > NRequests(sent[w]) =>
                  remote_id[w] \in DOMAIN peers']_vars

C19_Witness ==
    \E w \in Workers :
        /\ last.op = "next_request"
        /\ last.peer = remote_id[w]
        /\ remote_id[w] \notin DOMAIN peers
        /\ last.ret = None
        /\ "pending_request" \in Range(my_state[w])
        /\ NRequests(sent[w]) = 0
        /\ pc[w] = "read"

\* the piece manager has nothing to give to the registered peer p: no
\* pending request has expired, no ongoing piece the peer has holds a Missing
\* block, and the peer has no piece of missing_pieces
NothingToGive(p) ==
    /\ p \in DOMAIN peers
    /\ \A index \in PieceIndexes : InBitfield(peers[p], index)
    /\ \A k \in DOMAIN pending_blocks :
           ~(pending_blocks[k].added + max_pending_time < now)
    /\ \A k \in DOMAIN ongoing_pieces :
           peers[p][ongoing_pieces[k] + 1] = 1 =>
               \A b \in DOMAIN blocks[ongoing_pieces[k]] :
                   blocks[ongoing_pieces[k]][b].status # Missing
    /\ \A k \in DOMAIN missing_pieces : peers[p][missing_pieces[k] + 1] = 0

\* C20: next_request for a registered peer returns None, raises nothing and
\* leaves missing_pieces, ongoing_pieces and pending_blocks unchanged when
\* the piece manager has nothing to give to the peer, missing_pieces being
\* empty included.
C20_NothingToGiveReturnsNone ==
    [][(/\ last' # last
        /\ last'.op = "next_request"
        /\ NothingToGive(last'.peer)) =>
            /\ last'.ret = None
            /\ last'.exc = ""
            /\ UNCHANGED <<missing_pieces, ongoing_pieces, pending_blocks>>]_vars

\* C21: for a torrent whose total_size is an exact multiple of piece_length
\* the last piece is built with length piece_length, with
\* ceil(piece_length / 16384) blocks like every other piece, not with zero
\* blocks.
C21_LastPieceOfEvenTorrent ==
    torrent.total_size % torrent.piece_length = 0 =>
        /\ Len(blocks[total_pieces - 1]) =
               Ceil(torrent.piece_length, REQUEST_SIZE)
        /\ \A k \in DOMAIN blocks[total_pieces - 1] :
               blocks[total_pieces - 1][k].length = REQUEST_SIZE

(***************************************************************************)
(* SpecInbound: one worker and a peer that has every piece, answers the    *)
(* Requests, and sends the messages of a downloading peer as well:         *)
(* Interested, NotInterested, Request, Cancel and KeepAlive.               *)
(***************************************************************************)
\* the messages the worker has no reaction to
Ignored == {"Request", "Cancel", "KeepAlive", "Interested", "NotInterested"}

InboundFrames ==
    {<<"BitField", AllPieces>>, <<"Unchoke">>, <<"KeepAlive">>,
     <<"Interested">>, <<"NotInterested">>,
     <<"Request", 0, 0, REQUEST_SIZE>>, <<"Cancel", 0, 0, REQUEST_SIZE>>}

NextInbound ==
    \/ QueuePut
    \/ \E w \in Workers : Run(w, {"ok"})
    \/ \E w \in Workers : \E frame \in InboundFrames : PeerSend(w, frame)
    \/ \E w \in Workers : PeerAnswer(w, TRUE)
    \/ \E w \in Workers : PeerClose(w)

SpecInbound == InitPeer /\ [][NextInbound]_vars

\* what the worker has written on a connection: a Handshake, then one
\* Interested, then Requests
SentInOrder(s) ==
    \A k \in DOMAIN s :
        s[k] = (IF k = 1 THEN "Handshake"
                ELSE IF k = 2 THEN "Interested" ELSE "Request")

\* the loop body has run for a message of Ignored in this step
IgnoredHandled(w) ==
    /\ handled'[w] # handled[w]
    /\ handled'[w].message \in Ignored

PyInt(n) == [t |-> "int", v |-> n]
PyBytes(b) == [t |-> "bytes", v |-> b]
PyByteArray(b) == [t |-> "bytearray", v |-> b]
PyList(items) == [t |-> "list", v |-> items]
PyDict(pairs) == [t |-> "dict", v |-> pairs]
PyNone == [t |-> "None", v |-> <<>>]

TOKEN_INTEGER == 105
TOKEN_LIST == 108
TOKEN_DICT == 100
TOKEN_END == 101
TOKEN_STRING_SEPARATOR == 58

\* a call that returned value, and a call that raised exc
Returned(value) == [done |-> TRUE, exc |-> "", value |-> value]
Raised(exc) == [done |-> TRUE, exc |-> exc, value |-> <<>>]

\* str(n) of an int, as bytes
RECURSIVE Digits(_)
Digits(n) ==
    IF n < 10 THEN <<48 + n>> ELSE Digits(n \div 10) \o <<48 + (n % 10)>>

str(n) == IF n < 0 THEN <<45>> \o Digits(0 - n) ELSE Digits(n)

\* Encoder.encode_next and the _encode_ methods it selects by type(data).
\* The value returned is the bytes of str.encode for a str and an int, the
\* bytearray the method builds for bytes, a list and a dict, and None for a
\* type that is not supported.
\* _encode_list encodes every item before b''.join raises on a None;
\* _encode_dict encodes key and value of one pair and raises on a None before
\* it goes to the next pair.
RECURSIVE encode_next(_)
encode_next(data) ==
    CASE data.t = "str" ->
            Returned(PyBytes(str(Len(data.v)) \o <<TOKEN_STRING_SEPARATOR>> \o data.v))
      [] data.t = "int" ->
            Returned(PyBytes(<<TOKEN_INTEGER>> \o str(data.v) \o <<TOKEN_END>>))
      [] data.t = "list" ->
            LET items == [i \in 1..Len(data.v) |-> encode_next(data.v[i])]
                bad == { i \in 1..Len(items) : items[i].exc # "" }
            IN  IF bad # {}
                THEN items[CHOOSE i \in bad : \A j \in bad : i <= j]
                ELSE IF \E i \in 1..Len(items) : items[i].value = PyNone
                THEN Raised("TypeError")
                ELSE Returned(PyByteArray(<<TOKEN_LIST>>
                         \o Flatten([i \in 1..Len(items) |-> items[i].value.v])
                         \o <<TOKEN_END>>))
      [] data.t = "dict" ->
            LET key == [i \in 1..Len(data.v) |-> encode_next(data.v[i][1])]
                value == [i \in 1..Len(data.v) |-> encode_next(data.v[i][2])]
                bad == { i \in 1..Len(data.v) :
                            \/ key[i].exc # ""
                            \/ value[i].exc # ""
                            \/ key[i].value = PyNone
                            \/ value[i].value = PyNone }
                i == CHOOSE i \in bad : \A j \in bad : i <= j
            IN  IF bad # {}
                THEN IF key[i].exc # "" THEN key[i]
                     ELSE IF value[i].exc # "" THEN value[i]
                     ELSE Raised("RuntimeError")
                ELSE Returned(PyByteArray(<<TOKEN_DICT>>
                         \o Flatten([j \in 1..Len(data.v) |->
                                        key[j].value.v \o value[j].value.v])
                         \o <<TOKEN_END>>))
      [] data.t = "bytes" ->
            Returned(PyByteArray(str(Len(data.v)) \o <<TOKEN_STRING_SEPARATOR>>
                                 \o data.v))
      [] OTHER -> Returned(PyNone)

\* Encoder(data).encode()
Encoder_encode(data) == encode_next(data)

\* int(b) of bytes: an optional sign and one digit or more
RECURSIVE Number(_)
Number(digits) ==
    IF digits = <<>> THEN 0
    ELSE 10 * Number(SubSeq(digits, 1, Len(digits) - 1))
         + (digits[Len(digits)] - 48)

int(b) ==
    LET signed == b # <<>> /\ b[1] \in {43, 45}
        digits == IF signed THEN Tail(b) ELSE b
    IN  IF digits = <<>> \/ \E i \in 1..Len(digits) : digits[i] \notin 48..57
        THEN Raised("ValueError")
        ELSE Returned(IF signed /\ b[1] = 45 THEN 0 - Number(digits)
                      ELSE Number(digits))

\* the state of a Decoder after a call: what the call returned or raised,
\* and _index
At(result, index) == [result |-> result, index |-> index]

\* Decoder._peek
peek(data, index) ==
    IF index + 1 >= Len(data) THEN None ELSE Slice(data, index, index + 1)

\* Decoder._read_until, followed by the int() both of its callers apply
read_until(data, index, token) ==
    LET found == { i \in index..(Len(data) - 1) : data[i + 1] = token }
        occurrence == CHOOSE i \in found : \A j \in found : i <= j
    IN  IF found = {} THEN At(Raised("RuntimeError"), index)
        ELSE At(int(Slice(data, index, occurrence)), occurrence + 1)

\* Decoder._decode_string: _read_until and _read
decode_string(data, index) ==
    LET n == read_until(data, index, TOKEN_STRING_SEPARATOR)
    IN  IF n.result.exc # "" THEN n
        ELSE IF n.index + n.result.value > Len(data)
        THEN At(Raised("IndexError"), n.index)
        ELSE At(Returned(PyBytes(Slice(data, n.index,
                                       n.index + n.result.value))),
                n.index + n.result.value)

\* res[key] = obj of an OrderedDict: a key that is there keeps its place
SetItem(pairs, key, obj) ==
    IF \E i \in 1..Len(pairs) : pairs[i][1] = key
    THEN [i \in 1..Len(pairs) |->
            IF pairs[i][1] = key THEN <<key, obj>> ELSE pairs[i]]
    ELSE Append(pairs, <<key, obj>>)

\* Decoder.decode, _decode_list and _decode_dict, from _index = index; res
\* is what the loop of a list or a dict has collected
RECURSIVE decode(_, _), decode_list(_, _, _), decode_dict(_, _, _)
decode(data, index) ==
    LET c == peek(data, index)
    IN  IF c = None THEN At(Raised("EOFError"), index)
        ELSE IF c = <<TOKEN_INTEGER>>
        THEN LET n == read_until(data, index + 1, TOKEN_END)
             IN  IF n.result.exc # "" THEN n
                 ELSE At(Returned(PyInt(n.result.value)), n.index)
        ELSE IF c = <<TOKEN_LIST>> THEN decode_list(data, index + 1, <<>>)
        ELSE IF c = <<TOKEN_DICT>> THEN decode_dict(data, index + 1, <<>>)
        ELSE IF c = <<TOKEN_END>> THEN At(Returned(PyNone), index)
        ELSE IF c[1] \in 48..57 THEN decode_string(data, index)
        ELSE At(Raised("RuntimeError"), index)

decode_list(data, index, res) ==
    IF Slice(data, index, index + 1) = <<TOKEN_END>>
    THEN At(Returned(PyList(res)), index + 1)
    ELSE LET item == decode(data, index)
         IN  IF item.result.exc # "" THEN item
             ELSE decode_list(data, item.index, Append(res, item.result.value))

decode_dict(data, index, res) ==
    IF Slice(data, index, index + 1) = <<TOKEN_END>>
    THEN At(Returned(PyDict(res)), index + 1)
    ELSE LET key == decode(data, index)
             obj == decode(data, key.index)
         IN  IF key.result.exc # "" THEN key
             ELSE IF obj.result.exc # "" THEN obj
             ELSE IF key.result.value.t \in {"list", "dict"}
             THEN At(Raised("TypeError"), obj.index)
             ELSE decode_dict(data, obj.index,
                              SetItem(res, key.result.value, obj.result.value))

\* Decoder(data).decode(): __init__ raises unless data is of type bytes
Decoder_decode(data) ==
    IF data.t # "bytes" THEN Raised("TypeError") ELSE decode(data.v, 0).result

\* ------------------------------------------------------------------------
\* torrent.py: Torrent(filename)

\* d[key] of the pairs of a dict, and key in d
HasKey(pairs, key) == \E i \in 1..Len(pairs) : pairs[i][1] = key
GetItem(pairs, key) ==
    pairs[CHOOSE i \in 1..Len(pairs) : pairs[i][1] = key][2]

\* b'/'.join(path)
RECURSIVE JoinPath(_)
JoinPath(path) ==
    IF Len(path) = 0 THEN <<>>
    ELSE IF Len(path) = 1 THEN path[1].v
    ELSE path[1].v \o <<47>> \o JoinPath(Tail(path))

\* what os.path.exists and os.mkdir do for the directory of a multi-file
\* torrent
MkdirOutcomes == {"exists", "created", "OSError"}

\* Torrent.__init__ on a file that holds data, with _identify_files and the
\* multi_file property: the Torrent built, or the exception raised. The
\* digest of the encoded info dictionary is named by the bytes digested.
Torrent_init(data, mkdir) ==
    LET b_info == <<105, 110, 102, 111>>
        b_files == <<102, 105, 108, 101, 115>>
        b_name == <<110, 97, 109, 101>>
        b_length == <<108, 101, 110, 103, 116, 104>>
        b_path == <<112, 97, 116, 104>>
        meta_info == Decoder_decode(PyBytes(data))
        info == GetItem(meta_info.value.v, PyBytes(b_info))
        encoded_info == Encoder_encode(info)
        multi_file == HasKey(info.v, PyBytes(b_files))
        name == GetItem(info.v, PyBytes(b_name))
        files == GetItem(info.v, PyBytes(b_files))
        FileError(file) ==
            IF file.t # "dict" THEN "TypeError"
            ELSE IF ~HasKey(file.v, PyBytes(b_path)) THEN "KeyError"
            ELSE IF LET path == GetItem(file.v, PyBytes(b_path))
                    IN  \/ path.t # "list"
                        \/ \E i \in 1..Len(path.v) : path.v[i].t # "bytes"
            THEN "TypeError"
            ELSE IF ~HasKey(file.v, PyBytes(b_length)) THEN "KeyError"
            ELSE ""
        bad == { i \in 1..Len(files.v) : FileError(files.v[i]) # "" }
        TorrentFile(file) ==
            [path |-> name.v \o <<47>>
                        \o JoinPath(GetItem(file.v, PyBytes(b_path)).v),
             length |-> GetItem(file.v, PyBytes(b_length))]
        Built(torrent_files) ==
            Returned([info_hash |-> [sha1 |-> encoded_info.value.v],
                      multi_file |-> multi_file,
                      files |-> torrent_files])
    IN  IF meta_info.exc # "" THEN Raised(meta_info.exc)
        ELSE IF meta_info.value.t # "dict" THEN Raised("TypeError")
        ELSE IF ~HasKey(meta_info.value.v, PyBytes(b_info))
        THEN Raised("KeyError")
        ELSE IF encoded_info.exc # "" THEN Raised(encoded_info.exc)
        ELSE IF info.t # "dict" THEN Raised("TypeError")
        ELSE IF ~HasKey(info.v, PyBytes(b_name)) THEN Raised("KeyError")
        ELSE IF name.t # "bytes" THEN Raised("AttributeError")
        ELSE IF multi_file
        THEN IF mkdir = "OSError" THEN Raised("OSError")
             ELSE IF files.t # "list"
             THEN IF files.t \in {"dict", "bytes"} /\ files.v = <<>>
                  THEN Built(<<>>)
                  ELSE Raised("TypeError")
             ELSE IF bad # {}
             THEN Raised(FileError(files.v[CHOOSE i \in bad :
                                              \A j \in bad : i <= j]))
             ELSE Built([i \in 1..Len(files.v) |-> TorrentFile(files.v[i])])
        ELSE IF ~HasKey(info.v, PyBytes(b_length)) THEN Raised("KeyError")
        ELSE Built(<<[path |-> name.v,
                      length |-> GetItem(info.v, PyBytes(b_length))]>>)

\* ------------------------------------------------------------------------
\* The conversions applied to bounded inputs: an object is encoded and the
\* bytes returned are decoded, bytes are decoded and the object returned is
\* encoded, a file is given to Torrent.

\* the objects: ints, byte strings, lists of up to two of them, ordered
\* mappings of up to two byte-string keys in either order, and lists and
\* mappings that hold one of these
Atoms ==
    { PyInt(0), PyInt(0 - 7), PyInt(120), PyBytes(<<>>), PyBytes(<<101>>),
      PyBytes(<<105, 49, 101>>) }

DictKeys == { PyBytes(<<>>), PyBytes(<<98>>), PyBytes(<<97, 58>>) }

Flat ==
    Atoms
    \cup { PyList(items) : items \in UNION { [1..n -> Atoms] : n \in 0..2 } }
    \cup { PyDict(<<>>) }
    \cup { PyDict(<<<<k, a>>>>) : k \in DictKeys, a \in Atoms }
    \cup { PyDict(<<<<k[1], a>>, <<k[2], PyInt(1)>>>>) :
             k \in { p \in DictKeys \X DictKeys : p[1] # p[2] }, a \in Atoms }

Objects ==
    Flat
    \cup { PyList(<<o>>) : o \in Flat }
    \cup { PyDict(<<<<PyBytes(<<98>>), o>>>>) : o \in Flat }

\* canonical bencoded byte strings
CanonicalBytes ==
    {
      \* i0e
      <<105, 48, 101>>,
      \* i-3e
      <<105, 45, 51, 101>>,
      \* i42e
      <<105, 52, 50, 101>>,
      \* 0:
      <<48, 58>>,
      \* 4:spam
      <<52, 58, 115, 112, 97, 109>>,
      \* le
      <<108, 101>>,
      \* l4:spami42ee
      <<108, 52, 58, 115, 112, 97, 109, 105, 52, 50, 101, 101>>,
      \* de
      <<100, 101>>,
      \* d3:bar4:spam3:fooi42ee
      <<100, 51, 58, 98, 97, 114, 52, 58, 115, 112, 97, 109, 51, 58, 102,
         111, 111, 105, 52, 50, 101, 101>>,
      \* d4:spaml1:a1:bee
      <<100, 52, 58, 115, 112, 97, 109, 108, 49, 58, 97, 49, 58, 98, 101,
         101>>,
      \* lli1eelee
      <<108, 108, 105, 49, 101, 101, 108, 101, 101>>,
      \* d1:ad1:bi1eee
      <<100, 49, 58, 97, 100, 49, 58, 98, 105, 49, 101, 101, 101>> }

\* the content of torrent files
TorrentFiles ==
    {
      \* d8:announce3:url4:infod6:lengthi5e4:name1:a12:piece
      \*   lengthi2e6:pieces0:ee (a single file)
      <<100, 56, 58, 97, 110, 110, 111, 117, 110, 99, 101, 51, 58, 117, 114,
         108, 52, 58, 105, 110, 102, 111, 100, 54, 58, 108, 101, 110, 103,
         116, 104, 105, 53, 101, 52, 58, 110, 97, 109, 101, 49, 58, 97, 49,
         50, 58, 112, 105, 101, 99, 101, 32, 108, 101, 110, 103, 116, 104,
         105, 50, 101, 54, 58, 112, 105, 101, 99, 101, 115, 48, 58, 101,
         101>>,
      \* d8:announce3:url4:infod5:filesld6:lengthi5e4:pathl1:beed6:lengthi3e
      \*   4:pathl1:c1:deee4:name1:a12:piece lengthi2e6:pieces0:ee (two
      \*   files, the second in a directory)
      <<100, 56, 58, 97, 110, 110, 111, 117, 110, 99, 101, 51, 58, 117, 114,
         108, 52, 58, 105, 110, 102, 111, 100, 53, 58, 102, 105, 108, 101,
         115, 108, 100, 54, 58, 108, 101, 110, 103, 116, 104, 105, 53, 101,
         52, 58, 112, 97, 116, 104, 108, 49, 58, 98, 101, 101, 100, 54, 58,
         108, 101, 110, 103, 116, 104, 105, 51, 101, 52, 58, 112, 97, 116,
         104, 108, 49, 58, 99, 49, 58, 100, 101, 101, 101, 52, 58, 110, 97,
         109, 101, 49, 58, 97, 49, 50, 58, 112, 105, 101, 99, 101, 32, 108,
         101, 110, 103, 116, 104, 105, 50, 101, 54, 58, 112, 105, 101, 99,
         101, 115, 48, 58, 101, 101>>,
      \* d8:announce3:url4:infod5:filesld6:lengthi5e4:pathl1:beee6:lengthi5e
      \*   4:name1:a12:piece lengthi2e6:pieces0:ee (files and length)
      <<100, 56, 58, 97, 110, 110, 111, 117, 110, 99, 101, 51, 58, 117, 114,
         108, 52, 58, 105, 110, 102, 111, 100, 53, 58, 102, 105, 108, 101,
         115, 108, 100, 54, 58, 108, 101, 110, 103, 116, 104, 105, 53, 101,
         52, 58, 112, 97, 116, 104, 108, 49, 58, 98, 101, 101, 101, 54, 58,
         108, 101, 110, 103, 116, 104, 105, 53, 101, 52, 58, 110, 97, 109,
         101, 49, 58, 97, 49, 50, 58, 112, 105, 101, 99, 101, 32, 108, 101,
         110, 103, 116, 104, 105, 50, 101, 54, 58, 112, 105, 101, 99, 101,
         115, 48, 58, 101, 101>>,
      \* d8:announce3:url4:infod5:filesle4:name1:aee (an empty list of files)
      <<100, 56, 58, 97, 110, 110, 111, 117, 110, 99, 101, 51, 58, 117, 114,
         108, 52, 58, 105, 110, 102, 111, 100, 53, 58, 102, 105, 108, 101,
         115, 108, 101, 52, 58, 110, 97, 109, 101, 49, 58, 97, 101, 101>>,
      \* d8:announce3:url4:infod5:filesld6:lengthi5eee4:name1:aee (a file
      \*   without a path)
      <<100, 56, 58, 97, 110, 110, 111, 117, 110, 99, 101, 51, 58, 117, 114,
         108, 52, 58, 105, 110, 102, 111, 100, 53, 58, 102, 105, 108, 101,
         115, 108, 100, 54, 58, 108, 101, 110, 103, 116, 104, 105, 53, 101,
         101, 101, 52, 58, 110, 97, 109, 101, 49, 58, 97, 101, 101>>,
      \* d8:announce3:url4:infod4:name1:a12:piece lengthi2e6:pieces0:ee
      \*   (neither files nor length)
      <<100, 56, 58, 97, 110, 110, 111, 117, 110, 99, 101, 51, 58, 117, 114,
         108, 52, 58, 105, 110, 102, 111, 100, 52, 58, 110, 97, 109, 101,
         49, 58, 97, 49, 50, 58, 112, 105, 101, 99, 101, 32, 108, 101, 110,
         103, 116, 104, 105, 50, 101, 54, 58, 112, 105, 101, 99, 101, 115,
         48, 58, 101, 101>>,
      \* d8:announce3:urle (no info)
      <<100, 56, 58, 97, 110, 110, 111, 117, 110, 99, 101, 51, 58, 117, 114,
         108, 101>>,
      \* d8:announce3:url4:infod6:lengthi5e4:name1:a (cut short)
      <<100, 56, 58, 97, 110, 110, 111, 117, 110, 99, 101, 51, 58, 117, 114,
         108, 52, 58, 105, 110, 102, 111, 100, 54, 58, 108, 101, 110, 103,
         116, 104, 105, 53, 101, 52, 58, 110, 97, 109, 101, 49, 58, 97>> }

\* field values of 32 bits, as far as the numbers of the checker reach
Words == {0, 1, 255, 256, REQUEST_SIZE, 2147483647}

\* blocks: no byte, one byte, bytes that read as a length prefix
Blocks == {<<>>, <<7>>, <<0, 0, 0, 13, 6>>}

\* the messages with an encode and a decode that takes fields from the bytes
Messages ==
    { <<"Handshake", h, PeerIdBytes(id)>> :
          h \in {info_hash, other_hash}, id \in 1..2 }
    \cup { <<"Have", index>> : index \in Words }
    \cup { <<name, index, begin, length>> :
              name \in {"Request", "Cancel"}, index \in Words,
              begin \in {0, REQUEST_SIZE, 2147483647}, length \in Words }
    \cup { <<"Piece", index, begin, block>> :
              index \in Words, begin \in Words, block \in Blocks }

\* the blocks of a Piece of up to MaxBlocks blocks, each in any status, a
\* Retrieved one with its data
MaxBlocks == 3

PieceBlocks ==
    { [k \in 1..n |->
          [Block(0, (k - 1) * REQUEST_SIZE, REQUEST_SIZE) EXCEPT
              !.status = st[k],
              !.data = IF st[k] = Retrieved THEN <<0, REQUEST_SIZE>>
                       ELSE None]] :
      n \in 0..MaxBlocks, st \in [1..MaxBlocks -> {Missing, Pending, Retrieved}] }

Source(kind, object, data) == [kind |-> kind, object |-> object, data |-> data]

InitCodec ==
    /\ PM_init(MakeTorrent(REQUEST_SIZE, REQUEST_SIZE + 100))
    /\ now = 0
    /\ NoWorkers
    /\ NoClient
    /\ stream = <<>>
    /\ bytes_buffer = <<>>
    /\ parsed = [before |-> <<>>, message |-> <<>>, exc |-> ""]
    /\ bpc = "none"
    /\ hbuf = <<>>
    /\ tries = 0
    /\ received = <<>>
    /\ response = NoHandshake
    /\ source \in { Source("object", o, <<>>) : o \in Objects }
                  \cup { Source("bytes", <<>>, b) : b \in CanonicalBytes }
                  \cup { Source("file", <<>>, b) : b \in TorrentFiles }
                  \cup { Source("message", m, <<>>) : m \in Messages }
                  \cup { Source("piece", bs, <<>>) : bs \in PieceBlocks }
    /\ encoded = NotDone
    /\ decoded = NotDone
    /\ loaded = NotDone
    /\ called = NotCalled

\* Encoder(v).encode() of the object given, or of the object decoded from
\* the bytes given
BencodeEncode ==
    /\ ~encoded.done
    /\ \/ source.kind = "object" /\ encoded' = Encoder_encode(source.object)
       \/ /\ source.kind = "bytes"
          /\ decoded.done /\ decoded.exc = ""
          /\ encoded' = Encoder_encode(decoded.value)
    /\ UNCHANGED <<pmvars, wvars, cvars, stream, bytes_buffer, parsed, bpc,
                   hbuf, tries, received, response, called,
                   source, decoded, loaded>>

\* Decoder(b).decode() of the bytes given, or of what encode() returned for
\* the object given
BencodeDecode ==
    /\ ~decoded.done
    /\ \/ /\ source.kind = "bytes"
          /\ decoded' = Decoder_decode(PyBytes(source.data))
       \/ /\ source.kind = "object"
          /\ encoded.done /\ encoded.exc = ""
          /\ decoded' = Decoder_decode(encoded.value)
    /\ UNCHANGED <<pmvars, wvars, cvars, stream, bytes_buffer, parsed, bpc,
                   hbuf, tries, received, response, called,
                   source, encoded, loaded>>

\* Torrent(filename) of a file with the content given
LoadTorrent(mkdir) ==
    /\ source.kind = "file"
    /\ ~loaded.done
    /\ loaded' = Torrent_init(source.data, mkdir)
    /\ UNCHANGED <<pmvars, wvars, cvars, stream, bytes_buffer, parsed, bpc,
                   hbuf, tries, received, response, called,
                   source, encoded, decoded>>

\* message.encode() of a message built from the fields given
MessageEncode ==
    /\ source.kind = "message"
    /\ ~encoded.done
    /\ LET m == source.object
       IN  encoded' = Returned(PyBytes(
               CASE m[1] = "Handshake" -> Handshake_encode(m[2], m[3])
                 [] m[1] = "Have" -> Have_encode(m[2])
                 [] m[1] = "Request" -> Request_encode(m[2], m[3], m[4])
                 [] m[1] = "Cancel" -> Cancel_encode(m[2], m[3], m[4])
                 [] m[1] = "Piece" -> Piece_encode(m[2], m[3], m[4])))
    /\ UNCHANGED <<pmvars, wvars, cvars, stream, bytes_buffer, parsed, bpc,
                   hbuf, tries, received, response, called,
                   source, decoded, loaded>>

\* the decode of the message's class on the bytes encode() returned
MessageDecode ==
    /\ source.kind = "message"
    /\ encoded.done
    /\ ~decoded.done
    /\ LET name == source.object[1]
           data == encoded.value.v
           r == CASE name = "Have" -> Have_decode(data)
                  [] name = "Request" -> Request_decode(data)
                  [] name = "Cancel" -> Cancel_decode(data)
                  [] name = "Piece" -> Piece_decode(data)
       IN  decoded' = IF name = "Handshake"
                      THEN Returned(Handshake_decode(data))
                      ELSE IF r.exc = "" THEN Returned(r.message)
                      ELSE Raised(r.exc)
    /\ UNCHANGED <<pmvars, wvars, cvars, stream, bytes_buffer, parsed, bpc,
                   hbuf, tries, received, response, called,
                   source, encoded, loaded>>

\* piece.next_request() on a Piece with the blocks given
PieceNextRequest ==
    /\ source.kind = "piece"
    /\ ~called.done
    /\ LET r == Piece_next_request(source.object)
       IN  called' = [done |-> TRUE, method |-> "next_request", offset |-> 0,
                      data |-> <<>>, k |-> r.k, blocks |-> r.blocks]
    /\ UNCHANGED <<pmvars, wvars, cvars, stream, bytes_buffer, parsed, bpc,
                   hbuf, tries, received, response, source, encoded, decoded,
                   loaded>>

\* piece.block_received(offset, data) on a Piece with the blocks given
PieceBlockReceived(offset, data) ==
    /\ source.kind = "piece"
    /\ ~called.done
    /\ called' = [done |-> TRUE, method |-> "block_received",
                  offset |-> offset, data |-> data, k |-> 0,
                  blocks |-> Piece_block_received(source.object, offset,
                                                  data)]
    /\ UNCHANGED <<pmvars, wvars, cvars, stream, bytes_buffer, parsed, bpc,
                   hbuf, tries, received, response, source, encoded, decoded,
                   loaded>>

NextCodec ==
    \/ BencodeEncode
    \/ BencodeDecode
    \/ MessageEncode
    \/ MessageDecode
    \/ PieceNextRequest
    \/ \E k \in 0..MaxBlocks, data \in {<<0, REQUEST_SIZE>>, <<1, 100>>} :
          PieceBlockReceived(k * REQUEST_SIZE, data)
    \/ \E mkdir \in MkdirOutcomes : LoadTorrent(mkdir)

SpecCodec == InitCodec /\ [][NextCodec]_vars

\* the info dictionary of the file has a files key
HasFiles ==
    LET meta_info == Decoder_decode(PyBytes(source.data))
    IN  /\ source.kind = "file"
        /\ meta_info.exc = ""
        /\ HasKey(meta_info.value.v, PyBytes(<<105, 110, 102, 111>>))
        /\ HasKey(GetItem(meta_info.value.v, PyBytes(<<105, 110, 102, 111>>)).v,
                  PyBytes(<<102, 105, 108, 101, 115>>))

\* C23: constructing a Torrent from a metainfo whose info dictionary has a
\* files key raises, and only a metainfo without files is loaded
C23_MultiFileTorrentIsRejected ==
    (loaded.done /\ HasFiles) => loaded.exc # ""

\* C24: an object that is encoded and decoded is the object again, keys in
\* the same order, and canonical bytes that are decoded and encoded are the
\* same bytes
C24_BencodeRoundTrip ==
    /\ (source.kind = "object" /\ encoded.done) =>
            encoded.exc = "" /\ encoded.value # PyNone
    /\ (source.kind = "object" /\ decoded.done) =>
            decoded.exc = "" /\ decoded.value = source.object
    /\ (source.kind = "bytes" /\ decoded.done) => decoded.exc = ""
    /\ (source.kind = "bytes" /\ encoded.done) =>
            encoded.exc = "" /\ encoded.value.v = source.data

\* C25: a Handshake, Have, Request, Piece or Cancel that is encoded and
\* decoded has the fields it was built with
C25_WireRoundTrip ==
    (source.kind = "message" /\ decoded.done) =>
        /\ decoded.exc = ""
        /\ IF source.object[1] = "Handshake"
           THEN /\ decoded.value.ok
                /\ decoded.value.info_hash = source.object[2]
                /\ decoded.value.peer_id = source.object[3]
           ELSE decoded.value = source.object

C25_Witness ==
    /\ source.kind = "message"
    /\ decoded.done
    /\ source.object[1] = "Piece"
    /\ source.object[2] = 2147483647
    /\ source.object[3] = REQUEST_SIZE
    /\ Len(source.object[4]) = 5

\* C26: Piece.next_request returns the first Missing block in list order and
\* makes that block, and no other, Pending; without a Missing block it
\* returns None and changes nothing
C26_PieceNextRequest ==
    (called.done /\ called.method = "next_request") =>
        LET bs == source.object
            missing == { j \in 1..Len(bs) : bs[j].status = Missing }
        IN  IF missing = {}
            THEN called.k = 0 /\ called.blocks = bs
            ELSE /\ called.k \in missing
                 /\ \A j \in missing : called.k <= j
                 /\ Len(called.blocks) = Len(bs)
                 /\ called.blocks[called.k] =
                        [bs[called.k] EXCEPT !.status = Pending]
                 /\ \A j \in 1..Len(bs) :
                        j # called.k => called.blocks[j] = bs[j]

C26_Witness ==
    /\ called.done
    /\ called.method = "next_request"
    /\ Len(source.object) = 3
    /\ source.object[1].status = Retrieved
    /\ source.object[2].status = Missing
    /\ source.object[3].status = Missing
    /\ called.k = 2

\* C27: Piece.block_received with the offset of a block makes that block,
\* and no other, Retrieved with the data given; with an offset of no block
\* it changes no block
C27_PieceBlockReceived ==
    (called.done /\ called.method = "block_received") =>
        LET bs == source.object
        IN  /\ Len(called.blocks) = Len(bs)
            /\ \A j \in 1..Len(bs) :
                  called.blocks[j] =
                      IF bs[j].offset = called.offset
                      THEN [bs[j] EXCEPT !.status = Retrieved,
                                         !.data = called.data]
                      ELSE bs[j]

C27_Witness ==
    /\ called.done
    /\ called.method = "block_received"
    /\ Len(source.object) = 3
    /\ source.object[2].status = Pending
    /\ called.offset = REQUEST_SIZE
    /\ called.data = <<1, 100>>
    /\ called.blocks[2].status = Retrieved

\* pending_blocks holds a record older than max_pending_time whose piece
\* the registered peer p advertises; k is the position of the first one
Expired(p, k) ==
    /\ p \in DOMAIN peers
    /\ k \in DOMAIN pending_blocks
    /\ \A j \in DOMAIN pending_blocks :
          InBitfield(peers[p], pending_blocks[j].piece)
    /\ peers[p][pending_blocks[k].piece + 1] = 1
    /\ pending_blocks[k].added + max_pending_time < now
    /\ \A j \in 1..(k - 1) :
          ~(/\ peers[p][pending_blocks[j].piece + 1] = 1
            /\ pending_blocks[j].added + max_pending_time < now)

\* the step is a call of next_request by peer p
NextRequestBy(p) ==
    /\ last'.op = "next_request"
    /\ last'.peer = p
    /\ now' = now

\* C28: next_request by a registered peer that advertises the piece of a
\* record older than 300 000 ms returns the block of that record without
\* raising, sets the time of the record to the current time, and leaves one
\* record for the block
C28_ExpiredRequestIsReissued ==
    [][\A p \in PeerIds : \A k \in DOMAIN pending_blocks :
          (Expired(p, k) /\ NextRequestBy(p)) =>
              /\ last'.exc = ""
              /\ last'.ret[1] = pending_blocks[k].piece
              /\ last'.ret[2] = pending_blocks[k].offset
              /\ pending_blocks' =
                     [pending_blocks EXCEPT ![k].added = now]]_vars

\* The piece manager with time that passes and peers that keep asking.
\* A call of next_request by p that returns what the last call returned and
\* changes nothing is no step; p keeps asking when its calls are steps again
\* and again, or are again and again calls of that kind.
Quiet(p) ==
    \A rarest_piece \in RarestChoices(PM, p) :
        LET r == next_request(PM, p, rarest_piece)
        IN  r.m = PM /\ Call("next_request", p, r.exc, r.ret) = last

KeepsAsking(p) == []<>Quiet(p) \/ []<><<NextRequestBy(p)>>_vars

SpecPMFair ==
    /\ SpecPM
    /\ WF_vars(Tick)
    /\ \A p \in PeerIds : KeepsAsking(p)

\* block k of piece i is Pending
IsPending(i, k) ==
    /\ i \in DOMAIN blocks
    /\ k \in DOMAIN blocks[i]
    /\ blocks[i][k].status = Pending

\* a registered peer advertises piece i
Advertised(i) ==
    \E p \in DOMAIN peers : InBitfield(peers[p], i) /\ peers[p][i + 1] = 1

\* the last call was a next_request, made after more than max_pending_time,
\* that returned block k of piece i
Reissued(i, k) ==
    /\ i \in DOMAIN blocks
    /\ k \in DOMAIN blocks[i]
    /\ last.op = "next_request"
    /\ last.exc = ""
    /\ last.ret = BlockRef(blocks[i][k])
    /\ now > max_pending_time

\* C29: a block that is Pending, while a registered peer that advertises
\* its piece keeps asking, is in the end returned again by next_request or
\* is Pending no more
C29_PendingBlockIsReissued ==
    \A i \in 0..1 : \A k \in 1..2 :
        IsPending(i, k) ~>
            (Reissued(i, k) \/ ~IsPending(i, k) \/ ~Advertised(i))

\* the records pending_blocks holds for the block of piece i at offset
Records(i, offset) ==
    Cardinality({ j \in DOMAIN pending_blocks :
                    /\ pending_blocks[j].piece = i
                    /\ pending_blocks[j].offset = offset })

\* C30: every block that is Pending has exactly one record in
\* pending_blocks, whether next_request took it from an ongoing piece or
\* from a piece it started, and block_received for its piece and offset
\* removes the record
C30_PendingBlockHasOneRecord ==
    /\ [](\A i \in DOMAIN blocks : \A k \in DOMAIN blocks[i] :
            blocks[i][k].status = Pending =>
                Records(i, blocks[i][k].offset) = 1)
    /\ [][(last'.op = "block_received" /\ now' = now) =>
            \A j \in DOMAIN pending_blocks' :
                <<pending_blocks'[j].piece, pending_blocks'[j].offset>>
                    # last'.ret]_vars

\* the bitfield of the registered peer p has a bit for every piece
Covers(p) ==
    /\ p \in DOMAIN peers
    /\ \A index \in PieceIndexes : InBitfield(peers[p], index)

\* j is the position in ongoing_pieces of the first piece that p advertises
\* and that has a Missing block
FirstOngoing(p, j) ==
    LET Open(i) ==
            /\ peers[p][ongoing_pieces[i] + 1] = 1
            /\ \E b \in DOMAIN blocks[ongoing_pieces[i]] :
                  blocks[ongoing_pieces[i]][b].status = Missing
    IN  /\ j \in DOMAIN ongoing_pieces
        /\ Open(j)
        /\ \A i \in 1..(j - 1) : ~Open(i)

\* the first Missing block of piece index
FirstMissing(index) ==
    LET bs == blocks[index]
    IN  bs[CHOOSE b \in DOMAIN bs :
              /\ bs[b].status = Missing
              /\ \A c \in 1..(b - 1) : bs[c].status # Missing]

\* an expired record that p advertises is returned first
C31_ExpiredFirst ==
    \A p \in PeerIds : \A k \in DOMAIN pending_blocks :
        (Expired(p, k) /\ NextRequestBy(p)) =>
            /\ last'.exc = ""
            /\ last'.ret[1] = pending_blocks[k].piece
            /\ last'.ret[2] = pending_blocks[k].offset
            /\ missing_pieces' = missing_pieces

\* without one, the next Missing block of the first ongoing piece that p
\* advertises and that has one
C31_OngoingSecond ==
    \A p \in PeerIds : \A j \in DOMAIN ongoing_pieces :
        (/\ Covers(p)
         /\ ~(\E k \in DOMAIN pending_blocks : Expired(p, k))
         /\ FirstOngoing(p, j)
         /\ NextRequestBy(p)) =>
            /\ last'.exc = ""
            /\ last'.ret = BlockRef(FirstMissing(ongoing_pieces[j]))
            /\ missing_pieces' = missing_pieces

\* a piece leaves missing_pieces only when neither yields a block
C31_NewPieceLast ==
    missing_pieces' # missing_pieces =>
        \E p \in PeerIds :
            /\ NextRequestBy(p)
            /\ Covers(p)
            /\ ~(\E k \in DOMAIN pending_blocks : Expired(p, k))
            /\ ~(\E j \in DOMAIN ongoing_pieces : FirstOngoing(p, j))

\* C31: next_request takes its block from an expired record the peer
\* advertises, else from the first ongoing piece the peer advertises that
\* has a Missing block, and starts a new piece only when neither has one
C31_SourcesInOrder ==
    [][C31_ExpiredFirst /\ C31_OngoingSecond /\ C31_NewPieceLast]_vars

\* the step moves piece index out of missing_pieces
Chosen(index) ==
    /\ index \in Range(missing_pieces)
    /\ index \notin Range(missing_pieces')

\* the pieces of missing_pieces that p advertises
Startable(p) ==
    {index \in Range(missing_pieces) : peers[p][index + 1] = 1}

\* the chosen piece is one p advertises, of least count, and it goes from
\* missing_pieces to the end of ongoing_pieces
C32_Rarest ==
    \A p \in PeerIds : \A index \in PieceIndexes :
        (NextRequestBy(p) /\ Chosen(index)) =>
            /\ index \in Startable(p)
            /\ \A other \in Startable(p) :
                  piece_count(PM, index) <= piece_count(PM, other)
            /\ missing_pieces' = Remove(missing_pieces, index)
            /\ ongoing_pieces' = Append(ongoing_pieces, index)

\* of the pieces of least count it is the earliest in missing_pieces
C32_Earliest ==
    \A p \in PeerIds : \A index \in PieceIndexes :
        (NextRequestBy(p) /\ Chosen(index)) =>
            \A other \in Startable(p) :
                piece_count(PM, other) = piece_count(PM, index) =>
                    \A i, j \in DOMAIN missing_pieces :
                        (missing_pieces[i] = index
                         /\ missing_pieces[j] = other) => i <= j

\* its first block is returned and is Pending
C32_FirstBlock ==
    \A p \in PeerIds : \A index \in PieceIndexes :
        (NextRequestBy(p) /\ Chosen(index)) =>
            /\ Len(blocks[index]) > 0
            /\ last'.exc = ""
            /\ last'.ret = BlockRef(blocks[index][1])
            /\ blocks'[index][1].status = Pending

\* C32: the piece next_request starts for peer p is a missing piece that p
\* advertises, of least count among those and the earliest of that count in
\* missing_pieces; it moves to ongoing_pieces and its first block is
\* returned, Pending
C32_RarestPieceIsStarted ==
    [][C32_Rarest /\ C32_Earliest /\ C32_FirstBlock]_vars

\* worker w has just run the loop body for an Unchoke message
UnchokeHandled(w) ==
    /\ handled'[w] # handled[w]
    /\ handled'[w].message = "Unchoke"

\* C33: when a worker has processed an Unchoke message, "choked" is not in
\* its my_state, however many Choke messages came before
C33_UnchokeClearsChoked ==
    [][\A w \in Workers :
          UnchokeHandled(w) => "choked" \notin Range(my_state'[w])]_vars

\* the step puts "pending_request" in the my_state of worker w
PendingRequestAdded(w) ==
    /\ "pending_request" \notin Range(my_state[w])
    /\ "pending_request" \in Range(my_state'[w])

\* C34: "pending_request" enters a worker's my_state only in a step that
\* sends a Request: when next_request returned no block it is not added
C34_PendingRequestMeansRequestSent ==
    [][\A w \in Workers :
          (PendingRequestAdded(w) /\ last'.exc = "") =>
              /\ last'.ret # None
              /\ sent'[w] = Append(sent[w], "Request")]_vars

\* the step ends an announce call with a response
AnnounceSucceeds ==
    /\ cpc = "announce"
    /\ announces'[Len(announces')].reply = "peers"

\* the step makes an announce call
AnnounceCalled == Len(announces') > Len(announces)

Shapes ==
    {[piece_length |-> pl, total_size |-> ts,
      pieces |-> [k \in 1..Ceil(ts, pl) |-> <<>>]] :
        pl \in {REQUEST_SIZE, REQUEST_SIZE + 100, 2 * REQUEST_SIZE,
                3 * REQUEST_SIZE},
        ts \in {100, REQUEST_SIZE, REQUEST_SIZE + 100, 2 * REQUEST_SIZE,
                2 * REQUEST_SIZE + 100, 3 * REQUEST_SIZE,
                4 * REQUEST_SIZE + 100, 6 * REQUEST_SIZE}}

\* bs, the blocks of the pieces of torrent t, are laid out as stated
BlockLayout(t, bs) ==
    LET n           == Len(t.pieces)
        last_length == TruePieceLen(t.piece_length, t.total_size, n - 1)
    IN  \A index \in DOMAIN bs :
            /\ index < n - 1 =>
                  Len(bs[index]) = Ceil(t.piece_length, REQUEST_SIZE)
            /\ \A k \in DOMAIN bs[index] :
                  /\ bs[index][k].piece = index
                  /\ bs[index][k].offset % REQUEST_SIZE = 0
                  /\ bs[index][k].offset = (k - 1) * REQUEST_SIZE
                  /\ bs[index][k].length =
                        IF /\ index = n - 1
                           /\ k = Len(bs[index])
                           /\ last_length % REQUEST_SIZE # 0
                        THEN last_length % REQUEST_SIZE
                        ELSE REQUEST_SIZE

\* C36: the blocks of a piece are at the offsets 0, 16384, 32768, ...; every
\* piece but the last has ceil(piece_length / 16384) blocks; every block has
\* length 16384 but the last block of the last piece, whose length is the
\* last piece's length mod 16384 when that is not zero.  It holds of what
\* _initiate_pieces builds and no call changes it.
C36_BlockLayout ==
    /\ BlockLayout(torrent, blocks)
    /\ last.op = "init" => blocks = initiate_pieces(torrent)
    /\ \A t \in Shapes : BlockLayout(t, initiate_pieces(t))

\* a piece manager just built whose last piece ends with a short block
C36_Witness ==
    /\ last.op = "init"
    /\ total_pieces = 2
    /\ Len(blocks[0]) = 1
    /\ Len(blocks[1]) = 1
    /\ blocks[1][1].length = 100

\* the step is a next_request of peer p that returns block k of piece index
Returns(p, index, k) ==
    /\ NextRequestBy(p)
    /\ last'.exc = ""
    /\ last'.ret # None
    /\ last'.ret[1] = index
    /\ k \in DOMAIN blocks[index]
    /\ last'.ret[2] = blocks[index][k].offset

\* the step is a block_received that found the digest of piece index wrong
ResetOf(index) ==
    /\ last'.op = "block_received"
    /\ last'.outcome = "corrupt"
    /\ last'.ret[1] = index

\* C37: whatever the order of the calls of the workers, a block that
\* next_request returns without a timeout was Missing and is Pending after
\* the call, a block that is not Missing becomes Missing only when a digest
\* mismatch resets its piece, and no Retrieved block is returned
C37_BlockHandedOutOnce ==
    [][\A index \in PieceIndexes : \A k \in DOMAIN blocks[index] :
          /\ \A p \in PeerIds :
                Returns(p, index, k) =>
                    /\ blocks[index][k].status # Retrieved
                    /\ blocks'[index][k].status = Pending
                    /\ (~\E r \in DOMAIN pending_blocks : Expired(p, r)) =>
                           blocks[index][k].status = Missing
          /\ (blocks[index][k].status # Missing
              /\ blocks'[index][k].status = Missing) => ResetOf(index)]_vars

\* peer 2 has just been given a block while another block is Pending
C37_Witness ==
    /\ last.op = "next_request"
    /\ last.peer = 2
    /\ last.ret # None
    /\ DOMAIN peers = {1, 2}
    /\ \E index \in PieceIndexes : \E k \in DOMAIN blocks[index] :
          /\ blocks[index][k].status = Pending
          /\ <<index, blocks[index][k].offset>> # <<last.ret[1], last.ret[2]>>

\* worker w is suspended in reader.read and no byte is there to be read: it
\* runs again only when the peer sends or closes
BlockedInRead(w) ==
    /\ pc[w] = "read"
    /\ inbox[w] = <<>>
    /\ ~eof[w]

\* C38: a worker that waits for more input has been given every complete
\* frame it has read: no frame that parse returns as a message is left in
\* the buffer of its PeerStreamIterator
C38_EveryFrameReadIsDelivered ==
    \A w \in Workers :
        (BlockedInRead(w) /\ \A k \in DOMAIN buffer[w] :
                                 buffer[w][k][1] \in KnownIds) =>
            buffer[w] = <<>>

\* worker w is in the message loop of a connection
LiveSession(w) == pc[w] \in {"read", "request"}

\* C39: the peers registered with the piece manager are peers of live
\* sessions: when a session has ended, its peer id and bitfield are gone
C39_RegisteredPeersAreLive ==
    \A p \in DOMAIN peers :
        \E w \in Workers : LiveSession(w) /\ remote_id[w] = p

\* the step is a call of next_request or of block_received
PieceManagerCall == last'.op \in {"next_request", "block_received"}

\* C40: a piece in have_pieces stays there: no next_request and no
\* block_received, also one with a late block of the piece, moves it,
\* changes its blocks or writes at its place in the file again; have_pieces
\* does not get shorter and complete stays true
C40_HavePieceIsFinal ==
    [][/\ \A k \in DOMAIN have_pieces :
             /\ k \in DOMAIN have_pieces'
             /\ have_pieces'[k] = have_pieces[k]
             /\ have_pieces[k] \notin Range(missing_pieces')
             /\ have_pieces[k] \notin Range(ongoing_pieces')
             /\ blocks'[have_pieces[k]] = blocks[have_pieces[k]]
             /\ written' # written =>
                   written'[Len(written')].pos
                       # have_pieces[k] * torrent.piece_length
       /\ Len(have_pieces') >= Len(have_pieces)
       /\ complete => complete']_vars

\* block_received has just been called with a block of a piece of
\* have_pieces
C40_Witness ==
    /\ last.op = "block_received"
    /\ last.outcome = "not ongoing"
    /\ last.ret[1] \in Range(have_pieces)
    /\ last.ret[2] = 0

====
